---------------------------- MODULE Spec2Model ----------------------------
(***************************************************************************)
(* A model of havCSON (src/havCSON.hpp): the plain parser (class Parser),  *)
(* the lossless parser (detail::LosslessParser), the canonical writer      *)
(* (ToString) and the lossless writer (ToStringLossless).                  *)
(*                                                                         *)
(* A source text is a sequence of one-character strings.  A parser         *)
(* instance is a record of the members of class Parser; every method is an *)
(* operator from the instance (and its arguments) to the instance after    *)
(* the call together with what the method returns.  A while loop of the    *)
(* code is a RECURSIVE operator whose one unfolding is one iteration.      *)
(***************************************************************************)
EXTENDS Integers, Sequences, FiniteSets, TLC

VARIABLES
  src,      \* the text handed to the parser (Parser::mSrc)
  ast,      \* the tree a generated text was written from (NoAst for the corpus)
  hashDesc, \* the build's iteration order of std::unordered_map (see OrderedObjectItems)
  parser,   \* the members of one Parser instance
  out,      \* the caller's Value given to Parser::Parse as `out`
  hist,     \* what each Parse call on the instance returned, oldest first
  outPrev,  \* `out` as it was before the latest Parse call
  text,     \* ToString(out), once taken
  back,     \* Parse(text) by a fresh parser, once taken
  text2,    \* ToString(back.out), once taken
  lout,     \* the caller's LosslessValue given to ParseLossless as `out`
  lret,     \* what the latest ParseLossless call returned
  loutPrev, \* `lout` as it was before the latest ParseLossless call
  ltext,    \* ToStringLossless(lout), once taken
  lback,    \* ParseLossless(ltext) into a fresh LosslessValue, once taken
  lerr,     \* the caller's Error after the latest ParseLossless call
  json,     \* ToJsonString(out), once taken
  inst      \* two Parser instances of two threads (specification SpecTwo)

vars == <<src, ast, hashDesc, parser, out, hist, outPrev, text, back, text2,
          lout, lret, loutPrev, ltext, lback, lerr, json, inst>>

\* F applied to the value e: the body F of a LET whose one definition is e.
With(e, F(_)) == F(e)

---------------------------------------------------------------------------
(* Characters *)

Lower == {"a","b","c","d","e","f","g","h","i","j","k","l","m",
          "n","o","p","q","r","s","t","u","v","w","x","y","z"}
Upper == {"A","B","C","D","E","F","G","H","I","J","K","L","M",
          "N","O","P","Q","R","S","T","U","V","W","X","Y","Z"}
Digit == {"0","1","2","3","4","5","6","7","8","9"}

\* What Peek returns at the end of the text: the character '\0'.
NUL == "NUL"

\* Every byte 0x00..0xFF as a character, in byte order: a printable ASCII
\* character is itself, '`' is "BACKTICK", and any other byte is named by its
\* hexadecimal value.
Bytes ==
  <<
    "NUL","x01","x02","x03","x04","x05","x06","x07","x08","\t","\n","x0B","x0C","\r","x0E","x0F",
    "x10","x11","x12","x13","x14","x15","x16","x17","x18","x19","x1A","x1B","x1C","x1D","x1E","x1F",
    " ","!","\"","#","$","%","&","'","(",")","*","+",",","-",".","/",
    "0","1","2","3","4","5","6","7","8","9",":",";","<","=",">","?",
    "@","A","B","C","D","E","F","G","H","I","J","K","L","M","N","O",
    "P","Q","R","S","T","U","V","W","X","Y","Z","[","\\","]","^","_",
    "BACKTICK","a","b","c","d","e","f","g","h","i","j","k","l","m","n","o",
    "p","q","r","s","t","u","v","w","x","y","z","{","|","}","~","x7F",
    "x80","x81","x82","x83","x84","x85","x86","x87","x88","x89","x8A","x8B","x8C","x8D","x8E","x8F",
    "x90","x91","x92","x93","x94","x95","x96","x97","x98","x99","x9A","x9B","x9C","x9D","x9E","x9F",
    "xA0","xA1","xA2","xA3","xA4","xA5","xA6","xA7","xA8","xA9","xAA","xAB","xAC","xAD","xAE","xAF",
    "xB0","xB1","xB2","xB3","xB4","xB5","xB6","xB7","xB8","xB9","xBA","xBB","xBC","xBD","xBE","xBF",
    "xC0","xC1","xC2","xC3","xC4","xC5","xC6","xC7","xC8","xC9","xCA","xCB","xCC","xCD","xCE","xCF",
    "xD0","xD1","xD2","xD3","xD4","xD5","xD6","xD7","xD8","xD9","xDA","xDB","xDC","xDD","xDE","xDF",
    "xE0","xE1","xE2","xE3","xE4","xE5","xE6","xE7","xE8","xE9","xEA","xEB","xEC","xED","xEE","xEF",
    "xF0","xF1","xF2","xF3","xF4","xF5","xF6","xF7","xF8","xF9","xFA","xFB","xFC","xFD","xFE","xFF"
  >>

\* The value of a character as an unsigned char, and the character of a value.
ByteTable ==
  [c \in {Bytes[i] : i \in 1..Len(Bytes)} |-> (CHOOSE i \in 1..Len(Bytes) : Bytes[i] = c) - 1]

ByteVal(c) == ByteTable[c]

CharOf(b) == Bytes[b + 1]

---------------------------------------------------------------------------
(* Error codes and the Error structure *)

OK == "OK"

\* The enumerators of ErrorCode.
ErrorCodes ==
  {OK, "UnexpectedChar", "UnexpectedEnd", "InvalidNumber", "InvalidEscape",
   "InvalidUtf8", "UnterminatedString", "UnterminatedTripleString",
   "InvalidIndentChar", "InconsistentIndent", "InternalError"}

\* What stands for the code of a call that does not return: a loop of it
\* has come to an iteration that changes nothing it tests.
Hangs == "Hangs"

NoError == [code |-> OK, line |-> 1, column |-> 1]

---------------------------------------------------------------------------
(* Values: the variant Value, tagged by t *)

Null == [t |-> "null"]
Bool(b) == [t |-> "bool", v |-> b]
Number(d) == [t |-> "num", v |-> d]
String(s) == [t |-> "str", v |-> s]
Array(a) == [t |-> "arr", v |-> a]
Object(o) == [t |-> "obj", v |-> o]

\* An empty std::unordered_map: the function with no key.
EmptyObject == <<>>

\* std::unordered_map::emplace: inserts only when the key is not yet there.
ObjectEmplace(o, k, v) == IF k \in DOMAIN o THEN o ELSE (k :> v) @@ o

---------------------------------------------------------------------------
(* The cursor: Parser's members and its character primitives *)

\* A Parser just constructed on text s.
NewParser(s) ==
  [mSrc |-> s, mPos |-> 0, mLine |-> 1, mCol |-> 1,
   mIndentUnit |-> 0, mIndentStack |-> <<0>>, mError |-> NoError,
   mPendingComments |-> <<>>]

Size(p) == Len(p.mSrc)

Peek(p) == IF p.mPos < Size(p) THEN p.mSrc[p.mPos + 1] ELSE NUL

\* mSrc[i], for an index the code has checked to be below the size.
At(p, i) == p.mSrc[i + 1]

EndOfFile(p) == p.mPos >= Size(p)

\* Get: the instance after the call (the character returned is Peek before it).
Get(p) ==
  IF p.mPos >= Size(p) THEN p
  ELSE IF Peek(p) = "\n"
       THEN [p EXCEPT !.mPos = @ + 1, !.mLine = @ + 1, !.mCol = 1]
       ELSE [p EXCEPT !.mPos = @ + 1, !.mCol = @ + 1]

\* Match(c): the instance after the call; it returned Peek(p) = c.
Match(p, c) == IF Peek(p) = c THEN Get(p) ELSE p

Location(p) == [line |-> p.mLine, column |-> p.mCol]

\* Fail with a null `out`: sets mError and returns the code.
Fail(p, code) ==
  [p EXCEPT !.mError = [code |-> code, line |-> p.mLine, column |-> p.mCol]]

RECURSIVE SkipInlineSpaces(_)
SkipInlineSpaces(p) ==
  IF Peek(p) \in {" ", "\t"} THEN SkipInlineSpaces(Get(p)) ELSE p

RECURSIVE SkipToEOL(_)
SkipToEOL(p) ==
  IF EndOfFile(p) THEN p
  ELSE IF Peek(p) = "\n" THEN Get(p) ELSE SkipToEOL(Get(p))

\* Consume "\r\n", "\r" or "\n" when the cursor is on '\r' or '\n'.
ConsumeEOL(p) ==
  IF Peek(p) = "\r" /\ Peek(Get(p)) = "\n" THEN Get(Get(p)) ELSE Get(p)

RECURSIVE SkipWhitespaceAndComments(_)
SkipWhitespaceAndComments(p) ==
  IF EndOfFile(p) THEN p
  ELSE LET c == Peek(p) IN
       IF c \in {" ", "\t"} THEN SkipWhitespaceAndComments(Get(p))
       ELSE IF c = "#" THEN SkipWhitespaceAndComments(SkipToEOL(p))
       ELSE IF c = "\r" THEN SkipWhitespaceAndComments(ConsumeEOL(p))
       ELSE IF c = "\n" THEN SkipWhitespaceAndComments(Get(p))
       ELSE p

---------------------------------------------------------------------------
(* The indent model *)

\* The leading spaces of ReadLineIndent: [p, n, tab], tab when a tab stops it.
RECURSIVE ReadIndentSpaces(_, _)
ReadIndentSpaces(p, n) ==
  IF EndOfFile(p) THEN [p |-> p, n |-> n, tab |-> FALSE]
  ELSE IF Peek(p) = " " THEN ReadIndentSpaces(Get(p), n + 1)
  ELSE IF Peek(p) = "\t" THEN [p |-> p, n |-> n, tab |-> TRUE]
  ELSE [p |-> p, n |-> n, tab |-> FALSE]

\* The indent unit check at the end of ReadLineIndent, on a line with content.
EnforceIndentUnit(p, indentCols) ==
  IF indentCols > 0
  THEN IF p.mIndentUnit = 0
       THEN [p |-> [p EXCEPT !.mIndentUnit = indentCols], code |-> OK]
       ELSE IF indentCols % p.mIndentUnit # 0
            THEN [p |-> Fail(p, "InconsistentIndent"), code |-> "InconsistentIndent"]
            ELSE [p |-> p, code |-> OK]
  ELSE [p |-> p, code |-> OK]

\* A faulty variant of ReadLineIndent, kept for comparison: the indent unit
\* is enforced before the line is found to be blank or a comment.
ReadLineIndentUnitFirst(p) ==
  With(ReadIndentSpaces(p, 0), LAMBDA s :
    IF s.tab
    THEN [p |-> Fail(s.p, "InvalidIndentChar"), code |-> "InvalidIndentChar",
          indentCols |-> s.n, hasContent |-> FALSE]
    ELSE With(EnforceIndentUnit(s.p, s.n), LAMBDA u :
      IF u.code # OK
      THEN [p |-> u.p, code |-> u.code, indentCols |-> s.n, hasContent |-> FALSE]
      ELSE IF Peek(u.p) \in {"#", "\r", "\n", NUL}
      THEN With(IF Peek(u.p) = "#" THEN SkipToEOL(u.p) ELSE u.p, LAMBDA q1 :
             [p |-> IF Peek(q1) \in {"\r", "\n"} THEN ConsumeEOL(q1) ELSE q1,
              code |-> OK, indentCols |-> s.n, hasContent |-> FALSE])
      ELSE [p |-> u.p, code |-> OK, indentCols |-> s.n, hasContent |-> TRUE]))

\* ReadLineIndent: [p, code, indentCols, hasContent].
ReadLineIndent(p) ==
  With(ReadIndentSpaces(p, 0), LAMBDA s :
    IF s.tab
    THEN [p |-> Fail(s.p, "InvalidIndentChar"), code |-> "InvalidIndentChar",
          indentCols |-> s.n, hasContent |-> FALSE]
    ELSE IF Peek(s.p) \in {"#", "\r", "\n", NUL}
    THEN With(IF Peek(s.p) = "#" THEN SkipToEOL(s.p) ELSE s.p, LAMBDA q1 :
           [p |-> IF Peek(q1) \in {"\r", "\n"} THEN ConsumeEOL(q1) ELSE q1,
            code |-> OK, indentCols |-> s.n, hasContent |-> FALSE])
    ELSE With(EnforceIndentUnit(s.p, s.n), LAMBDA u :
           [p |-> u.p, code |-> u.code, indentCols |-> s.n, hasContent |-> TRUE]))

\* A faulty variant of PopIndent, kept for comparison: the level equal to
\* indentCols is popped too.
RECURSIVE PopIndentThrough(_, _)
PopIndentThrough(stack, indentCols) ==
  IF Len(stack) > 0 /\ indentCols <= stack[Len(stack)]
  THEN PopIndentThrough(SubSeq(stack, 1, Len(stack) - 1), indentCols)
  ELSE stack

\* The pops of ApplyIndentLevel.
RECURSIVE PopIndent(_, _)
PopIndent(stack, indentCols) ==
  IF Len(stack) > 0 /\ indentCols < stack[Len(stack)]
  THEN PopIndent(SubSeq(stack, 1, Len(stack) - 1), indentCols)
  ELSE stack

\* mIndentStack.back()
Top(p) == p.mIndentStack[Len(p.mIndentStack)]

\* A faulty variant of ApplyIndentLevel, kept for comparison: after the
\* pops the new top is not compared with indentCols.
ApplyIndentLevelAnyDedent(p, indentCols) ==
  IF indentCols > Top(p)
  THEN [p |-> [p EXCEPT !.mIndentStack = Append(@, indentCols)], code |-> OK]
  ELSE [p |-> [p EXCEPT !.mIndentStack = PopIndent(@, indentCols)], code |-> OK]

\* ApplyIndentLevel: [p, code].
ApplyIndentLevel(p, indentCols) ==
  IF indentCols > Top(p)
  THEN [p |-> [p EXCEPT !.mIndentStack = Append(@, indentCols)], code |-> OK]
  ELSE IF indentCols < Top(p)
  THEN With([p EXCEPT !.mIndentStack = PopIndent(@, indentCols)], LAMBDA q :
         IF Len(q.mIndentStack) = 0 \/ Top(q) # indentCols
         THEN [p |-> Fail(q, "InconsistentIndent"), code |-> "InconsistentIndent"]
         ELSE [p |-> q, code |-> OK])
  ELSE [p |-> p, code |-> OK]

\* A LosslessComment of the line [lineStart, p.mPos) just read as blank or comment.
RECURSIVE StripEOL(_)
StripEOL(line) ==
  IF Len(line) > 0 /\ line[Len(line)] \in {"\r", "\n"}
  THEN StripEOL(SubSeq(line, 1, Len(line) - 1))
  ELSE line

CommentOfLine(p, lineStart, indentCols) ==
  With(StripEOL(SubSeq(p.mSrc, lineStart + 1, p.mPos)), LAMBDA line :
    [indent |-> indentCols,
     text |-> IF indentCols < Len(line)
              THEN SubSeq(line, indentCols + 1, Len(line))
              ELSE <<>>])

\* NextContentLine (lossless = FALSE) and NextContentLineLossless (TRUE, which
\* appends each blank or comment line to mPendingComments): [p, code, hasLine].
\* When ReadLineIndent finds no content and has read nothing (the character
\* there is '\0' and the text goes on), the `continue` comes back to the same
\* instance: the loop does not end (and the lossless one appends a comment
\* each time round, until memory runs out).
RECURSIVE NextLine(_, _)
NextLine(p, lossless) ==
  IF EndOfFile(p) THEN [p |-> p, code |-> OK, hasLine |-> FALSE]
  ELSE IF p.mCol # 1
  THEN With(SkipToEOL(p), LAMBDA q :
         IF EndOfFile(q) THEN [p |-> q, code |-> OK, hasLine |-> FALSE]
         ELSE NextLine(q, lossless))
  ELSE With(ReadLineIndent(p), LAMBDA r :
         IF r.code # OK THEN [p |-> r.p, code |-> r.code, hasLine |-> FALSE]
         ELSE IF ~r.hasContent /\ r.p.mPos = p.mPos
         THEN [p |-> r.p, code |-> Hangs, hasLine |-> FALSE]
         ELSE IF ~r.hasContent
         THEN NextLine(IF lossless
                       THEN [r.p EXCEPT !.mPendingComments =
                               Append(@, CommentOfLine(r.p, p.mPos, r.indentCols))]
                       ELSE r.p,
                       lossless)
         ELSE With(ApplyIndentLevel(r.p, r.indentCols), LAMBDA a :
                [p |-> a.p, code |-> a.code, hasLine |-> (a.code = OK)]))

NextContentLine(p) == NextLine(p, FALSE)

NextContentLineLossless(p) == NextLine(p, TRUE)

---------------------------------------------------------------------------
(* Scalars: strings, numbers, keys *)

IsIdentifierStart(c) == c \in Upper \/ c \in Lower \/ c = "_"

IsIdentifierChar(c) == IsIdentifierStart(c) \/ c \in Digit \/ c = "-" \/ c = "_"

IsNumberStart(c) == c \in Digit \/ c = "-" \/ c = "+"

HexValue(c) ==
  IF c \in Digit THEN ByteVal(c) - ByteVal("0")
  ELSE IF c \in {"a","b","c","d","e","f"} THEN 10 + (ByteVal(c) - ByteVal("a"))
  ELSE IF c \in {"A","B","C","D","E","F"} THEN 10 + (ByteVal(c) - ByteVal("A"))
  ELSE -1

\* AppendUTF8: the bytes appended for a code point.
AppendUTF8(codePoint) ==
  IF codePoint <= 127 THEN <<CharOf(codePoint)>>
  ELSE IF codePoint <= 2047
  THEN <<CharOf(192 + (codePoint \div 64)), CharOf(128 + (codePoint % 64))>>
  ELSE IF codePoint <= 65535
  THEN <<CharOf(224 + (codePoint \div 4096)),
         CharOf(128 + ((codePoint \div 64) % 64)),
         CharOf(128 + (codePoint % 64))>>
  ELSE <<CharOf((240 + (codePoint \div 262144)) % 256),
         CharOf(128 + ((codePoint \div 4096) % 64)),
         CharOf(128 + ((codePoint \div 64) % 64)),
         CharOf(128 + (codePoint % 64))>>

\* The four hex digits of a \u escape: [p, code, v].
RECURSIVE ReadHex4(_, _, _)
ReadHex4(p, n, acc) ==
  IF n = 0 THEN [p |-> p, code |-> OK, v |-> acc]
  ELSE IF EndOfFile(p)
  THEN [p |-> Fail(p, "InvalidEscape"), code |-> "InvalidEscape", v |-> acc]
  ELSE With(HexValue(Peek(p)), LAMBDA hv :
         IF hv < 0
         THEN [p |-> Fail(Get(p), "InvalidEscape"), code |-> "InvalidEscape", v |-> acc]
         ELSE ReadHex4(Get(p), n - 1, acc * 16 + hv))

\* case 'u' of the escape switch, the cursor after the 'u': [p, code, bytes].
BadEscape(q) == [p |-> Fail(q, "InvalidEscape"), code |-> "InvalidEscape", bytes |-> <<>>]

\* A faulty variant of LowSurrogate, kept for comparison: each half is
\* appended as a code point of its own.
LowSurrogateEachHalf(h) ==
  With(ReadHex4(Get(Get(h.p)), 4, 0), LAMBDA l :
    IF l.code # OK THEN [p |-> l.p, code |-> l.code, bytes |-> <<>>]
    ELSE IF l.v < 56320 \/ l.v > 57343 THEN BadEscape(l.p)
    ELSE [p |-> l.p, code |-> OK, bytes |-> AppendUTF8(h.v) \o AppendUTF8(l.v)])

\* The low half of a surrogate pair, h the high half read before it.
LowSurrogate(h) ==
  With(ReadHex4(Get(Get(h.p)), 4, 0), LAMBDA l :
    IF l.code # OK THEN [p |-> l.p, code |-> l.code, bytes |-> <<>>]
    ELSE IF l.v < 56320 \/ l.v > 57343 THEN BadEscape(l.p)
    ELSE [p |-> l.p, code |-> OK,
          bytes |-> AppendUTF8(65536 + ((h.v - 55296) * 1024 + (l.v - 56320)))])

UnicodeEscape(p) ==
  With(ReadHex4(p, 4, 0), LAMBDA h :
    IF h.code # OK THEN [p |-> h.p, code |-> h.code, bytes |-> <<>>]
    ELSE IF h.v >= 55296 /\ h.v <= 56319
    THEN IF ~(Peek(h.p) = "\\" /\ h.p.mPos + 1 < Size(h.p) /\ At(h.p, h.p.mPos + 1) = "u")
         THEN BadEscape(h.p)
         ELSE LowSurrogate(h)
    ELSE IF h.v >= 56320 /\ h.v <= 57343 THEN BadEscape(h.p)
    ELSE [p |-> h.p, code |-> OK, bytes |-> AppendUTF8(h.v)])

\* The while loop of ParseStringDouble (quote = '"') and of ParseStringSingle
\* (quote = '\''), after the opening quote: [p, code, val].
RECURSIVE QuotedLoop(_, _, _)
RECURSIVE QuotedChar(_, _, _, _)
RECURSIVE QuotedEscape(_, _, _, _)
QuotedLoop(p, quote, result) ==
  IF EndOfFile(p)
  THEN [p |-> Fail(p, "UnterminatedString"), code |-> "UnterminatedString", val |-> Null]
  ELSE QuotedChar(Peek(p), Get(p), quote, result)

\* The body of the loop for the character c just read, q the cursor after it.
QuotedChar(c, q, quote, result) ==
  IF c = quote THEN [p |-> q, code |-> OK, val |-> String(result)]
  ELSE IF c = "\\"
  THEN IF EndOfFile(q)
       THEN [p |-> Fail(q, "UnterminatedString"), code |-> "UnterminatedString",
             val |-> Null]
       ELSE QuotedEscape(Peek(q), Get(q), quote, result)
  ELSE IF c \in {"\n", "\r"}
  THEN [p |-> Fail(q, "UnterminatedString"), code |-> "UnterminatedString",
        val |-> Null]
  ELSE QuotedLoop(q, quote, Append(result, c))

\* The switch on the character e after a backslash, q2 the cursor after it.
QuotedEscape(e, q2, quote, result) ==
  IF e = quote THEN QuotedLoop(q2, quote, Append(result, quote))
  ELSE IF e = "\\" THEN QuotedLoop(q2, quote, Append(result, "\\"))
  ELSE IF e = "n" THEN QuotedLoop(q2, quote, Append(result, "\n"))
  ELSE IF e = "r" THEN QuotedLoop(q2, quote, Append(result, "\r"))
  ELSE IF e = "t" THEN QuotedLoop(q2, quote, Append(result, "\t"))
  ELSE IF e = "u"
  THEN With(UnicodeEscape(q2), LAMBDA u :
         IF u.code # OK
         THEN [p |-> u.p, code |-> u.code, val |-> Null]
         ELSE QuotedLoop(u.p, quote, result \o u.bytes))
  ELSE [p |-> Fail(q2, "InvalidEscape"), code |-> "InvalidEscape", val |-> Null]

ParseStringDouble(p) ==
  IF Peek(p) # "\"" THEN [p |-> Fail(p, "InternalError"), code |-> "InternalError", val |-> Null]
  ELSE QuotedLoop(Get(p), "\"", <<>>)

ParseStringSingle(p) ==
  IF Peek(p) # "'" THEN [p |-> Fail(p, "InternalError"), code |-> "InternalError", val |-> Null]
  ELSE QuotedLoop(Get(p), "'", <<>>)

\* Three '"' at the cursor, with mPos + 2 < size as the code tests it.
TripleAt(p) ==
  /\ p.mPos + 2 < Size(p)
  /\ At(p, p.mPos) = "\"" /\ At(p, p.mPos + 1) = "\"" /\ At(p, p.mPos + 2) = "\""

RECURSIVE TripleLoop(_, _)
RECURSIVE MatchQuotes(_, _)
TripleLoop(p, result) ==
  IF EndOfFile(p)
  THEN [p |-> Fail(p, "UnterminatedTripleString"), code |-> "UnterminatedTripleString",
        val |-> Null]
  ELSE IF TripleAt(p)
  THEN [p |-> Get(Get(Get(p))), code |-> OK, val |-> String(result)]
  ELSE TripleLoop(Get(p), Append(result, Peek(p)))

\* !Match('"') || !Match('"') || !Match('"'): the cursor where it stops.
MatchQuotes(p, n) ==
  IF n = 0 \/ Peek(p) # "\"" THEN [p |-> p, left |-> n]
  ELSE MatchQuotes(Get(p), n - 1)

ParseTripleString(p) ==
  With(MatchQuotes(p, 3), LAMBDA m :
    IF m.left = 0 THEN TripleLoop(m.p, <<>>)
    ELSE [p |-> Fail(m.p, "InternalError"), code |-> "InternalError", val |-> Null])

ParseStringOrTriple(p) ==
  IF Peek(p) # "\"" THEN [p |-> Fail(p, "InternalError"), code |-> "InternalError", val |-> Null]
  ELSE IF TripleAt(p) THEN ParseTripleString(p)
  ELSE ParseStringDouble(p)

---------------------------------------------------------------------------
(* Numbers.  A double is modelled as the decimal m * 10^e it was written as, *)
(* with m free of trailing zeros and zero as [m |-> 0, e |-> 0], so that two  *)
(* doubles are equal exactly when their records are.                         *)

RECURSIVE Pow10(_)
Pow10(n) == IF n <= 0 THEN 1 ELSE 10 * Pow10(n - 1)

RECURSIVE Normal(_, _)
Normal(m, e) ==
  IF m = 0 THEN [m |-> 0, e |-> 0]
  ELSE IF m % 10 = 0 THEN Normal(m \div 10, e + 1)
  ELSE [m |-> m, e |-> e]

\* The digits at positions i.. of s: [n: how many, v: their value].
RECURSIVE DigitRun(_, _, _, _)
DigitRun(s, i, n, v) ==
  IF i <= Len(s) /\ s[i] \in Digit
  THEN DigitRun(s, i + 1, n + 1, v * 10 + (ByteVal(s[i]) - ByteVal("0")))
  ELSE [n |-> n, v |-> v]

\* std::strtod on a span of sign, digit, '.', 'e' and 'E' characters:
\* [end: the characters converted, value].  The exponent part, from index i2,
\* after `digits` digits of integer and fraction, fp the fraction's run.
StrtodExponent(s, neg, i2, digits, fp) ==
  LET hasE == i2 <= Len(s) /\ s[i2] \in {"e", "E"}
      eneg == hasE /\ i2 + 1 <= Len(s) /\ s[i2 + 1] = "-"
      i3 == IF hasE /\ i2 + 1 <= Len(s) /\ s[i2 + 1] \in {"+", "-"} THEN i2 + 2 ELSE i2 + 1
  IN With(IF hasE THEN DigitRun(s, i3, 0, 0) ELSE [n |-> 0, v |-> 0], LAMBDA ep :
       IF digits = 0 THEN [end |-> 0, value |-> Normal(0, 0)]
       ELSE [end |-> (IF hasE /\ ep.n > 0 THEN i3 + ep.n ELSE i2) - 1,
             value |-> Normal(IF neg THEN 0 - fp.v ELSE fp.v,
                              (IF hasE /\ ep.n > 0
                               THEN (IF eneg THEN 0 - ep.v ELSE ep.v)
                               ELSE 0) - fp.n)])

\* The fraction part, from index i1, after the integer digits ip.
StrtodFraction(s, neg, i1, ip) ==
  IF i1 <= Len(s) /\ s[i1] = "."
  THEN With(DigitRun(s, i1 + 1, 0, ip.v), LAMBDA fp :
         StrtodExponent(s, neg, i1 + 1 + fp.n, ip.n + fp.n, fp))
  ELSE StrtodExponent(s, neg, i1, ip.n, [n |-> 0, v |-> ip.v])

\* The integer part, from index i0, after the sign.
StrtodInteger(s, neg, i0) ==
  With(DigitRun(s, i0, 0, 0), LAMBDA ip : StrtodFraction(s, neg, i0 + ip.n, ip))

Strtod(s) ==
  StrtodInteger(s, Len(s) >= 1 /\ s[1] = "-",
                IF Len(s) >= 1 /\ s[1] \in {"+", "-"} THEN 2 ELSE 1)

\* The scanning loop of ParseNumber.
RECURSIVE NumberSpan(_, _, _)
NumberSpan(p, hasDot, hasExp) ==
  IF EndOfFile(p) THEN p
  ELSE LET c == Peek(p) IN
       IF c \in Digit THEN NumberSpan(Get(p), hasDot, hasExp)
       ELSE IF c = "." /\ ~hasDot THEN NumberSpan(Get(p), TRUE, hasExp)
       ELSE IF c \in {"e", "E"} /\ ~hasExp
       THEN LET q == Get(p)
            IN NumberSpan(IF Peek(q) \in {"+", "-"} THEN Get(q) ELSE q, hasDot, TRUE)
       ELSE p

ParseNumber(p) ==
  With(NumberSpan(IF Peek(p) \in {"+", "-"} THEN Get(p) ELSE p, FALSE, FALSE), LAMBDA q :
    With(Strtod(SubSeq(p.mSrc, p.mPos + 1, q.mPos)), LAMBDA d :
      IF d.end # q.mPos - p.mPos
      THEN [p |-> Fail(q, "InvalidNumber"), code |-> "InvalidNumber", val |-> Null]
      ELSE [p |-> q, code |-> OK, val |-> Number(d.value)]))

\* The identifier characters from the cursor on: [p, ident].
RECURSIVE ReadIdentifier(_, _)
ReadIdentifier(p, ident) ==
  IF IsIdentifierChar(Peek(p)) THEN ReadIdentifier(Get(p), Append(ident, Peek(p)))
  ELSE [p |-> p, ident |-> ident]

\* ParseKey: [p, code, key].
KeyOfString(r) ==
  [p |-> r.p, code |-> r.code, key |-> IF r.code = OK THEN r.val.v ELSE <<>>]

ParseKey(p0) ==
  With(SkipInlineSpaces(p0), LAMBDA p :
    IF Peek(p) = "\"" THEN KeyOfString(ParseStringDouble(p))
    ELSE IF Peek(p) = "'" THEN KeyOfString(ParseStringSingle(p))
    ELSE IF ~IsIdentifierStart(Peek(p))
    THEN [p |-> Fail(p, "UnexpectedChar"), code |-> "UnexpectedChar", key |-> <<>>]
    ELSE With(ReadIdentifier(p, <<>>), LAMBDA r :
           [p |-> r.p, code |-> OK, key |-> r.ident]))

---------------------------------------------------------------------------
(* The plain grammar.  Every production returns [p, code, val]: the        *)
(* instance after the call, the ErrorCode returned and, when that is OK,   *)
(* the Value stored through `out`.                                         *)

Ret(p, val) == [p |-> p, code |-> OK, val |-> val]

\* return Fail(code, nullptr, ...)
Err(p, code) == [p |-> Fail(p, code), code |-> code, val |-> Null]

\* return errorCode, of a callee that failed with the instance left as q.
Pass(q, code) == [p |-> q, code |-> code, val |-> Null]

\* `continue` in the while (true) of a production: the loop goes round again
\* from the instance p, acc being the container as filled so far.
Continue == "continue"

Again(p, acc) == [p |-> p, code |-> Continue, val |-> acc]

RECURSIVE ParseValue(_, _)
RECURSIVE ParseInlineObject(_, _)
RECURSIVE InlineObjectLoop(_, _)
RECURSIVE InlineObjectStep(_, _, _)
RECURSIVE ParseIndentedObjectBody(_, _)
RECURSIVE IndentedObjectLoop(_, _, _)
RECURSIVE IndentedObjectStep(_, _, _, _)
RECURSIVE ObjectEntry(_, _, _, _)
RECURSIVE ObjectValue(_, _, _, _, _)
RECURSIVE ObjectBlock(_, _, _, _)
RECURSIVE ParseArray(_, _)
RECURSIVE MultilineArrayLoop(_, _)
RECURSIVE MultilineArrayStep(_, _, _)
RECURSIVE InlineArrayLoop(_, _)
RECURSIVE InlineArrayStep(_, _, _)
RECURSIVE parseIdentifierOrIndentedObject(_, _)

ParseValue(p0, currentIndent) ==
  With(SkipWhitespaceAndComments(p0), LAMBDA p :
    IF Peek(p) = "{" THEN ParseInlineObject(p, currentIndent)
    ELSE IF Peek(p) = "[" THEN ParseArray(p, currentIndent)
    ELSE IF Peek(p) = "\"" THEN ParseStringOrTriple(p)
    ELSE IF Peek(p) = "'" THEN ParseStringSingle(p)
    ELSE IF IsIdentifierStart(Peek(p)) THEN parseIdentifierOrIndentedObject(p, currentIndent)
    ELSE IF IsNumberStart(Peek(p)) THEN ParseNumber(p)
    ELSE IF EndOfFile(p) THEN Err(p, "UnexpectedEnd")
    ELSE Err(p, "UnexpectedChar"))

parseIdentifierOrIndentedObject(p, currentIndent) ==
  With(ReadIdentifier(p, <<>>), LAMBDA r :
    With(SkipInlineSpaces(r.p), LAMBDA q :
      IF Peek(q) = ":"
      THEN ParseIndentedObjectBody(
             [q EXCEPT !.mPos = @ - Len(r.ident), !.mCol = @ - Len(r.ident)], currentIndent)
      ELSE IF r.ident = <<"t","r","u","e">> THEN Ret(q, Bool(TRUE))
      ELSE IF r.ident = <<"f","a","l","s","e">> THEN Ret(q, Bool(FALSE))
      ELSE IF r.ident = <<"n","u","l","l">> THEN Ret(q, Null)
      ELSE Ret(q, String(r.ident))))

ParseInlineObject(p, currentIndent) ==
  IF Peek(p) # "{" THEN Err(p, "InternalError")
  ELSE With(SkipWhitespaceAndComments(Get(p)), LAMBDA q :
         IF Peek(q) = "}" THEN Ret(Get(q), Object(EmptyObject))
         ELSE InlineObjectLoop(Again(q, EmptyObject), currentIndent))

\* The while (true) of ParseInlineObject: st is what the iteration before
\* came to.
InlineObjectLoop(st, currentIndent) ==
  IF st.code # Continue THEN st
  ELSE InlineObjectLoop(InlineObjectStep(st.p, st.val, currentIndent), currentIndent)

\* The rest of an iteration: '}', a comment, ',' or an error; p3 is the
\* instance after the whitespace that follows the value.
InlineObjectNext(p3, obj) ==
  IF Peek(p3) = "}" THEN Ret(Get(p3), Object(obj))
  ELSE With(IF Peek(p3) = "#" THEN SkipWhitespaceAndComments(SkipToEOL(p3)) ELSE p3,
            LAMBDA p5 :
              IF Peek(p5) = "}" THEN Ret(Get(p5), Object(obj))
              ELSE IF Peek(p5) = "," THEN Again(SkipWhitespaceAndComments(Get(p5)), obj)
              ELSE Err(p5, "UnexpectedChar"))

\* One iteration of the while (true) of ParseInlineObject.
InlineObjectStep(p, object, currentIndent) ==
  With(ParseKey(p), LAMBDA k :
    IF k.code # OK THEN Pass(k.p, k.code)
    ELSE With(SkipWhitespaceAndComments(k.p), LAMBDA p1 :
      IF Peek(p1) # ":" THEN Err(p1, "UnexpectedChar")
      ELSE With(ParseValue(SkipWhitespaceAndComments(Get(p1)), currentIndent), LAMBDA v :
        IF v.code # OK THEN Pass(v.p, v.code)
        ELSE InlineObjectNext(SkipWhitespaceAndComments(v.p),
                              ObjectEmplace(object, k.key, v.val)))))

\* bodyIndent is mIndentStack.back() as the body is entered.
ParseIndentedObjectBody(p, parentIndent) ==
  IndentedObjectLoop(Again(p, EmptyObject), Top(p), parentIndent)

\* The while (true) of ParseIndentedObjectBody.
IndentedObjectLoop(st, bodyIndent, parentIndent) ==
  IF st.code # Continue THEN st
  ELSE IndentedObjectLoop(IndentedObjectStep(st.p, st.val, bodyIndent, parentIndent),
                          bodyIndent, parentIndent)

\* After NextContentLine (its result n) in a place where the body may go on.
ObjectGoOn(n, obj, bodyIndent) ==
  IF n.code # OK THEN Pass(n.p, n.code)
  ELSE IF ~n.hasLine THEN Ret(n.p, Object(obj))
  ELSE IF Top(n.p) < bodyIndent THEN Ret(n.p, Object(obj))
  ELSE Again(n.p, obj)

\* One iteration of the while (true) of ParseIndentedObjectBody.
IndentedObjectStep(p0, object, bodyIndent, parentIndent) ==
  With(SkipInlineSpaces(p0), LAMBDA p :
    IF EndOfFile(p) THEN Ret(p, Object(object))
    ELSE IF Peek(p) \in {"#", "\r", "\n"}
    THEN ObjectGoOn(NextContentLine(p), object, bodyIndent)
    ELSE IF ~IsIdentifierStart(Peek(p)) /\ Peek(p) # "\"" /\ Peek(p) # "'"
    THEN Ret(p, Object(object))
    ELSE ObjectEntry(ParseKey(p), object, bodyIndent, parentIndent))

\* After ParseKey (its result k): the ':' of the entry.
ObjectEntry(k, object, bodyIndent, parentIndent) ==
  IF k.code # OK THEN Pass(k.p, k.code)
  ELSE With(SkipInlineSpaces(k.p), LAMBDA p2 :
         IF Peek(p2) # ":" THEN Err(p2, "UnexpectedChar")
         ELSE ObjectValue(SkipInlineSpaces(Get(p2)), object, k.key, bodyIndent, parentIndent))

\* What follows a same-line value: a comment, ',', a line break or the end of
\* the body.
ObjectAfterValue(p5, obj, bodyIndent) ==
  IF Peek(p5) \in {"#", "\r", "\n"}
  THEN ObjectGoOn(NextContentLine(IF Peek(p5) = "#" THEN SkipToEOL(p5) ELSE ConsumeEOL(p5)),
                  obj, bodyIndent)
  ELSE IF Peek(p5) = "," THEN Again(SkipInlineSpaces(Get(p5)), obj)
  ELSE Ret(p5, Object(obj))

\* The value v read on the line of its key.
ObjectInline(v, object, key, bodyIndent) ==
  IF v.code # OK THEN Pass(v.p, v.code)
  ELSE ObjectAfterValue(SkipInlineSpaces(v.p), ObjectEmplace(object, key, v.val), bodyIndent)

\* After the ':' and the spaces that follow it: a block value on the next
\* content line, or a value on the same line.
ObjectValue(p3, object, key, bodyIndent, parentIndent) ==
  IF Peek(p3) \in {"#", "\r", "\n"}
  THEN ObjectBlock(NextContentLine(IF Peek(p3) = "#" THEN SkipToEOL(p3) ELSE ConsumeEOL(p3)),
                   object, key, bodyIndent)
  ELSE ObjectInline(ParseValue(p3, parentIndent), object, key, bodyIndent)

\* ObjectBlock without the test of the indent stack after the block value:
\* the line after the block always continues this object.
ObjectBlockStaysOpen(n, object, key, bodyIndent) ==
  IF n.code # OK THEN Pass(n.p, n.code)
  ELSE IF ~n.hasLine THEN Err(n.p, "InconsistentIndent")
  ELSE IF Top(n.p) <= bodyIndent THEN Err(n.p, "InconsistentIndent")
  ELSE With(ParseValue(n.p, Top(n.p)), LAMBDA v :
         IF v.code # OK THEN Pass(v.p, v.code)
         ELSE Again(v.p, ObjectEmplace(object, key, v.val)))

\* The block value read from the next content line, found by n.
ObjectBlock(n, object, key, bodyIndent) ==
  IF n.code # OK THEN Pass(n.p, n.code)
  ELSE IF ~n.hasLine THEN Err(n.p, "InconsistentIndent")
  ELSE IF Top(n.p) <= bodyIndent THEN Err(n.p, "InconsistentIndent")
  ELSE With(ParseValue(n.p, Top(n.p)), LAMBDA v :
         IF v.code # OK THEN Pass(v.p, v.code)
         ELSE IF Top(v.p) < bodyIndent
         THEN Ret(v.p, Object(ObjectEmplace(object, key, v.val)))
         ELSE Again(v.p, ObjectEmplace(object, key, v.val)))

\* The closing ']' taken after the multiline loop, when there is one.
CloseBracket(p) == IF Peek(p) = "]" THEN Get(p) ELSE p

\* The end of a multiline array.
ArrayDone(q, arr) == Ret(CloseBracket(q), Array(arr))

ParseArray(p, parentIndent) ==
  IF Peek(p) # "[" THEN Err(p, "InternalError")
  ELSE With(SkipInlineSpaces(Get(p)), LAMBDA p1 :
         IF Peek(p1) \in {"\r", "\n"}
         THEN With(NextContentLine(ConsumeEOL(p1)), LAMBDA n :
                IF n.code # OK THEN Pass(n.p, n.code)
                ELSE IF ~n.hasLine \/ Peek(n.p) = "]" THEN ArrayDone(n.p, <<>>)
                ELSE MultilineArrayLoop(Again(n.p, <<>>), Top(n.p)))
         ELSE With(SkipWhitespaceAndComments(p1), LAMBDA p2 :
                IF Peek(p2) = "]" THEN Ret(Get(p2), Array(<<>>))
                ELSE InlineArrayLoop(Again(p2, <<>>), parentIndent)))

\* The while (true) over the elements of a multiline array.
MultilineArrayLoop(st, arrayIndent) ==
  IF st.code # Continue THEN st
  ELSE MultilineArrayLoop(MultilineArrayStep(st.p, st.val, arrayIndent), arrayIndent)

\* After NextContentLine (its result n) between two elements.
ArrayGoOn(n, arr, arrayIndent) ==
  IF n.code # OK THEN Pass(n.p, n.code)
  ELSE IF ~n.hasLine THEN ArrayDone(n.p, arr)
  ELSE IF Top(n.p) < arrayIndent THEN ArrayDone(n.p, arr)
  ELSE Again(n.p, arr)

\* What follows an element of a multiline array.
ArrayAfterValue(p3, arr, arrayIndent) ==
  IF Peek(p3) \in {"#", "\r", "\n"}
  THEN ArrayGoOn(NextContentLine(IF Peek(p3) = "#" THEN SkipToEOL(p3) ELSE ConsumeEOL(p3)),
                 arr, arrayIndent)
  ELSE IF Peek(p3) = "]" THEN ArrayDone(Get(p3), arr)
  ELSE IF Peek(p3) = "," THEN Again(SkipWhitespaceAndComments(Get(p3)), arr)
  ELSE Err(p3, "UnexpectedChar")

\* One iteration of the while (true) over the elements of a multiline array.
MultilineArrayStep(p, array, arrayIndent) ==
  IF Peek(p) = "]" THEN ArrayDone(Get(p), array)
  ELSE With(ParseValue(p, arrayIndent), LAMBDA v :
         IF v.code # OK THEN Pass(v.p, v.code)
         ELSE IF Top(v.p) < arrayIndent THEN ArrayDone(v.p, Append(array, v.val))
         ELSE ArrayAfterValue(SkipInlineSpaces(v.p), Append(array, v.val), arrayIndent))

\* The while (true) over the elements of an inline array.
InlineArrayLoop(st, parentIndent) ==
  IF st.code # Continue THEN st
  ELSE InlineArrayLoop(InlineArrayStep(st.p, st.val, parentIndent), parentIndent)

\* One iteration of the while (true) over the elements of an inline array.
InlineArrayStep(p, array, parentIndent) ==
  IF Peek(p) = "]" THEN Ret(Get(p), Array(array))
  ELSE With(ParseValue(p, parentIndent), LAMBDA v :
         IF v.code # OK THEN Pass(v.p, v.code)
         ELSE With(SkipWhitespaceAndComments(v.p), LAMBDA p3 :
                IF Peek(p3) = "]" THEN Ret(Get(p3), Array(Append(array, v.val)))
                ELSE IF Peek(p3) # "," THEN Err(p3, "UnexpectedChar")
                ELSE Again(SkipWhitespaceAndComments(Get(p3)), Append(array, v.val))))

---------------------------------------------------------------------------
(* ValidateUTF8 and Parser::Parse *)

\* The BOM test of Parse and of ValidateUTF8 at index 0.
HasBOM(s) ==
  Len(s) >= 3 /\ ByteVal(s[1]) = 239 /\ ByteVal(s[2]) = 187 /\ ByteVal(s[3]) = 191

\* The code point of the (length - k) continuation bytes from index + k on, or
\* -1 when one of them is no continuation byte.
RECURSIVE Continuation(_, _, _, _, _)
Continuation(s, index, k, length, codePoint) ==
  IF k >= length THEN codePoint
  ELSE LET cc == ByteVal(s[index + k + 1])
       IN IF cc < 128 \/ cc > 191 THEN -1
          ELSE Continuation(s, index, k + 1, length, codePoint * 64 + (cc % 64))

\* The length of the sequence the lead byte c opens, 0 for no lead byte.
SequenceLength(c) ==
  IF c >= 192 /\ c <= 223 THEN 2
  ELSE IF c >= 224 /\ c <= 239 THEN 3
  ELSE IF c >= 240 /\ c <= 247 THEN 4
  ELSE 0

\* The payload bits of the lead byte c of a sequence of that length.
LeadBits(c, length) ==
  IF length = 2 THEN c % 32 ELSE IF length = 3 THEN c % 16 ELSE c % 8

\* return false, with the position of the bad byte.
BadByte(index, badLine, badCol) ==
  [done |-> TRUE, ok |-> FALSE, badIndex |-> index, badLine |-> badLine, badCol |-> badCol]

\* The while loop goes round again, from the byte at index.
Scan(index, badLine, badCol) ==
  [done |-> FALSE, ok |-> TRUE, badIndex |-> index, badLine |-> badLine, badCol |-> badCol]

\* The checks on the decoded code point: continuation bytes, overlong forms,
\* range and surrogates.
ValidateCodePoint(index, badLine, badCol, length, codePoint) ==
  IF codePoint = -1 THEN BadByte(index, badLine, badCol)
  ELSE IF \/ length = 2 /\ codePoint < 128
          \/ length = 3 /\ codePoint < 2048
          \/ length = 4 /\ (codePoint < 65536 \/ codePoint > 1114111)
          \/ codePoint >= 55296 /\ codePoint <= 57343
  THEN BadByte(index, badLine, badCol)
  ELSE IF codePoint = 10 THEN Scan(index + length, badLine + 1, 1)
  ELSE Scan(index + length, badLine, badCol + 1)

\* The multi-byte sequence that the lead byte c opens.
ValidateSequence(s, index, badLine, badCol, c, length) ==
  IF length = 0 THEN BadByte(index, badLine, badCol)
  ELSE IF index + length > Len(s) THEN BadByte(index, badLine, badCol)
  ELSE ValidateCodePoint(index, badLine, badCol, length,
                         Continuation(s, index, 1, length, LeadBits(c, length)))

\* The byte c at index: a BOM inside the text, an ASCII byte or a lead byte.
ValidateByte(s, index, badLine, badCol, c) ==
  IF index > 0 /\ c = 239 /\ index + 2 < Len(s)
     /\ ByteVal(s[index + 2]) = 187 /\ ByteVal(s[index + 3]) = 191
  THEN BadByte(index, badLine, badCol)
  ELSE IF c <= 127
  THEN (IF c = 10 THEN Scan(index + 1, badLine + 1, 1) ELSE Scan(index + 1, badLine, badCol + 1))
  ELSE ValidateSequence(s, index, badLine, badCol, c, SequenceLength(c))

\* One iteration of the while loop of ValidateUTF8.
ValidateStep(s, allowLeadingBOM, index, badLine, badCol) ==
  IF index >= Len(s)
  THEN [done |-> TRUE, ok |-> TRUE, badIndex |-> 0, badLine |-> badLine, badCol |-> badCol]
  ELSE IF index = 0 /\ allowLeadingBOM /\ HasBOM(s) THEN Scan(index + 3, badLine, badCol)
  ELSE ValidateByte(s, index, badLine, badCol, ByteVal(s[index + 1]))

\* The while loop of ValidateUTF8: [ok, badIndex, badLine, badCol] when done.
RECURSIVE ValidateLoop(_, _, _)
ValidateLoop(s, allowLeadingBOM, st) ==
  IF st.done THEN st
  ELSE ValidateLoop(s, allowLeadingBOM,
                    ValidateStep(s, allowLeadingBOM, st.badIndex, st.badLine, st.badCol))

ValidateUTF8(s, allowLeadingBOM) == ValidateLoop(s, allowLeadingBOM, Scan(0, 1, 1))

\* The loop of Parse after the top-level value: whitespace and comments.
RECURSIVE SkipTrailing(_)
SkipTrailing(p) ==
  IF EndOfFile(p) THEN p
  ELSE IF Peek(p) \in {" ", "\t", "\r", "\n"} THEN SkipTrailing(Get(p))
  ELSE IF Peek(p) = "#" THEN SkipTrailing(SkipToEOL(p))
  ELSE p

\* The error Parse reports for the code a production returned, the instance
\* left as p.
ErrorOf(p, code) ==
  IF p.mError.code # OK THEN p.mError
  ELSE [code |-> code, line |-> p.mLine, column |-> p.mCol]

\* A faulty variant of ParseTrailing, kept for comparison: what is left of
\* the text after the top-level value is not looked at.
ParseTrailingIgnoresRest(r, pd, out0) ==
  [p |-> pd, code |-> OK, out |-> r.val, error |-> NoError]

\* A faulty variant of ParseTrailing, kept for comparison: `out` is assigned
\* before the test for trailing characters.
ParseTrailingAssignsFirst(r, pd, out0) ==
  IF pd.mPos # Size(pd)
  THEN [p |-> Fail(pd, "UnexpectedChar"), code |-> "UnexpectedChar", out |-> r.val,
        error |-> Fail(pd, "UnexpectedChar").mError]
  ELSE [p |-> pd, code |-> OK, out |-> r.val, error |-> NoError]

\* The end of Parse, the top-level value r read and the trailing whitespace
\* and comments skipped (the instance then pd): anything left is an error,
\* and only past that test is `out` assigned.
ParseTrailing(r, pd, out0) ==
  IF pd.mPos # Size(pd)
  THEN [p |-> Fail(pd, "UnexpectedChar"), code |-> "UnexpectedChar", out |-> out0,
        error |-> Fail(pd, "UnexpectedChar").mError]
  ELSE [p |-> pd, code |-> OK, out |-> r.val, error |-> NoError]

\* A faulty variant of ParseDocument, kept for comparison: a text with
\* nothing after its white space and comments is handed to ParseValue.
ParseDocumentNoEmpty(pc, out0) ==
  With(ParseValue(pc, 0), LAMBDA r :
    IF r.code # OK
    THEN [p |-> r.p, code |-> r.code, out |-> out0, error |-> ErrorOf(r.p, r.code)]
    ELSE ParseTrailing(r, [SkipTrailing(r.p) EXCEPT !.mIndentStack = <<0>>], out0))

\* Parse from the top-level value on; pc is the instance at its first
\* character.
ParseDocument(pc, out0) ==
  With(IF pc.mPos >= Size(pc) THEN Ret(pc, Null) ELSE ParseValue(pc, 0), LAMBDA r :
    IF r.code # OK
    THEN [p |-> r.p, code |-> r.code, out |-> out0, error |-> ErrorOf(r.p, r.code)]
    ELSE ParseTrailing(r, [SkipTrailing(r.p) EXCEPT !.mIndentStack = <<0>>], out0))

\* Parse when ValidateUTF8 has failed, pbad the instance after Fail.
ParseInvalid(pbad, out0) ==
  [p |-> pbad, code |-> "InvalidUtf8", out |-> out0, error |-> pbad.mError]

\* A faulty variant of ParseScan, kept for comparison: the text is not
\* validated before the grammar reads it.
ParseScanUnvalidated(p0) ==
  [ok |-> TRUE,
   p |-> SkipWhitespaceAndComments(
           IF HasBOM(p0.mSrc)
           THEN [p0 EXCEPT !.mError = NoError, !.mPos = 3, !.mCol = 1, !.mLine = 1]
           ELSE [p0 EXCEPT !.mError = NoError])]

\* A faulty variant of ParseScan, kept for comparison: a byte order mark at
\* the start is validated but not skipped.
ParseScanKeepsBOM(p0) ==
  With(ValidateUTF8(p0.mSrc, TRUE), LAMBDA u :
    IF ~u.ok
    THEN [ok |-> FALSE,
          p |-> Fail([p0 EXCEPT !.mError = NoError, !.mPos = u.badIndex,
                                !.mLine = u.badLine, !.mCol = u.badCol],
                     "InvalidUtf8")]
    ELSE [ok |-> TRUE,
          p |-> SkipWhitespaceAndComments([p0 EXCEPT !.mError = NoError])])

\* The first part of Parse, up to the first character of the top-level
\* value: [ok, p], ok what ValidateUTF8 returned and p the instance then.
ParseScan(p0) ==
  With(ValidateUTF8(p0.mSrc, TRUE), LAMBDA u :
    IF ~u.ok
    THEN [ok |-> FALSE,
          p |-> Fail([p0 EXCEPT !.mError = NoError, !.mPos = u.badIndex,
                                !.mLine = u.badLine, !.mCol = u.badCol],
                     "InvalidUtf8")]
    ELSE [ok |-> TRUE,
          p |-> SkipWhitespaceAndComments(
                  IF HasBOM(p0.mSrc)
                  THEN [p0 EXCEPT !.mError = NoError, !.mPos = 3, !.mCol = 1, !.mLine = 1]
                  ELSE [p0 EXCEPT !.mError = NoError])])

\* The rest of Parse, sc what its first part has come to.
ParseAfterScan(sc, out0) ==
  IF ~sc.ok THEN ParseInvalid(sc.p, out0) ELSE ParseDocument(sc.p, out0)

\* Parser::Parse(out, error) on the instance p0, with a non-null error:
\* [p, code, out, error], the instance after the call, the code returned, and
\* the caller's `out` and `*error` after it (error0 is `*error` before it).
ParserParse(p0, out0, error0) == ParseAfterScan(ParseScan(p0), out0)

\* The free function Parse(src, out, error): a Parser constructed for the call.
Parse(s, out0, error0) == ParserParse(NewParser(s), out0, error0)

---------------------------------------------------------------------------
(* The lossless grammar.  A production returns [p, code, out]: the         *)
(* instance after the call, the ErrorCode returned and the LosslessValue   *)
(* it was given as `out` (or as outWrapper) as the call leaves it, on      *)
(* every path.                                                             *)

\* A LosslessValue just constructed.
NewLosslessValue ==
  [value |-> Null, leadingComments |-> <<>>, inlineComment |-> <<>>,
   arrayItems |-> <<>>, objectItems |-> <<>>, trailingComments |-> <<>>]

\* Finish(code, nullptr, message): the instance after it.
FinishMessage(p, code) == Fail(p, code)

\* Finish(code, nullptr): keeps an error a callee has set.
Finish(p, code) == IF p.mError.code = OK THEN Fail(p, code) ELSE p

LRet(p, o) == [p |-> p, code |-> OK, out |-> o]

LErr(p, code, o) == [p |-> FinishMessage(p, code), code |-> code, out |-> o]

LPass(q, code, o) == [p |-> q, code |-> code, out |-> o]

\* The text of a comment from the '#' at the cursor to the end of the line,
\* the '#' left out: [p, text], p on the line break.
RECURSIVE RestOfLine(_, _)
RestOfLine(p, line) ==
  IF EndOfFile(p) \/ Peek(p) \in {"\r", "\n"} THEN [p |-> p, text |-> line]
  ELSE RestOfLine(Get(p), Append(line, Peek(p)))

\* A '#' met at the start column of a block after a value: the comment line is
\* pushed on mPendingComments; the instance after SkipToEOL.
PendComment(p) ==
  LET r == RestOfLine(Get(p), <<"#">>)
      indent == IF r.p.mCol - 1 < 0 THEN 0 ELSE r.p.mCol - 1
  IN SkipToEOL([r.p EXCEPT !.mPendingComments =
                   Append(@, [indent |-> indent, text |-> r.text])])

\* out.leadingComments.insert(end, comments).
WithLeading(o, comments) == [o EXCEPT !.leadingComments = @ \o comments]

\* x.back().inlineComment = comment, for the items of an array or an object.
SetLastArrayComment(o, comment) ==
  IF Len(o.arrayItems) = 0 THEN o
  ELSE [o EXCEPT !.arrayItems[Len(o.arrayItems)].inlineComment = comment]

SetLastObjectComment(o, comment) ==
  IF Len(o.objectItems) = 0 THEN o
  ELSE [o EXCEPT !.objectItems[Len(o.objectItems)].item.inlineComment = comment]

\* A faulty variant of EmplaceBackItem, kept for comparison: an entry is added
\* only for a key objectItems does not hold yet.
EmplaceBackOncePerKey(o, key, child) ==
  IF \E i \in 1..Len(o.objectItems) : o.objectItems[i].key = key THEN o
  ELSE [o EXCEPT !.objectItems = Append(@, [key |-> key, item |-> child])]

\* out.objectItems.emplace_back(key, child): one entry per key read, a key
\* seen before included.
EmplaceBackItem(o, key, child) ==
  [o EXCEPT !.objectItems = Append(@, [key |-> key, item |-> child])]

\* A scalar production of the plain parser run through a temporary Value.
ScalarLossless(r, o) ==
  [p |-> r.p, code |-> r.code, out |-> IF r.code = OK THEN [o EXCEPT !.value = r.val] ELSE o]

\* The results of ParseIndentedObjectBodyLossless: [p, code, out, obj], out
\* the outWrapper and obj the Object being filled.
BodyStop(q, oo, ob) == [p |-> q, code |-> OK, out |-> oo, obj |-> ob]

BodyPass(q, code, oo, ob) == [p |-> q, code |-> code, out |-> oo, obj |-> ob]

BodyFail(q, code, oo, ob) ==
  [p |-> FinishMessage(q, code), code |-> code, out |-> oo, obj |-> ob]

\* `continue` in a loop of the lossless parser: out is the LosslessValue and
\* acc the container of plain values, both as filled so far.
LAgain(p, o, acc) == [p |-> p, code |-> Continue, out |-> o, obj |-> acc]

RECURSIVE ParseValueLossless(_, _, _, _)
RECURSIVE ParseValueLosslessAt(_, _, _)
RECURSIVE ParseInlineObjectLossless(_, _, _)
RECURSIVE InlineObjectLoopLossless(_, _)
RECURSIVE InlineObjectStepLossless(_, _, _, _)
RECURSIVE ParseArrayLossless(_, _, _)
RECURSIVE MultilineArrayLoopLossless(_, _)
RECURSIVE MultilineArrayStepLossless(_, _, _, _)
RECURSIVE InlineArrayLoopLossless(_, _)
RECURSIVE InlineArrayStepLossless(_, _, _, _)
RECURSIVE ParseIdentifierOrIndentedObjectLossless(_, _, _)
RECURSIVE IndentedObjectLoopLossless(_, _, _)
RECURSIVE IndentedObjectStepLossless(_, _, _, _, _)
RECURSIVE ObjectEntryLossless(_, _, _, _, _, _)
RECURSIVE ObjectValueLossless(_, _, _, _, _, _, _)
RECURSIVE ObjectBlockLossless(_, _, _, _, _, _)

\* The pending comments become the leading comments of the value when
\* consumePending is set.
ParseValueLossless(p0, out0, currentIndent, consumePending) ==
  IF consumePending /\ Len(p0.mPendingComments) > 0
  THEN ParseValueLosslessAt([p0 EXCEPT !.mPendingComments = <<>>],
                            WithLeading(out0, p0.mPendingComments), currentIndent)
  ELSE ParseValueLosslessAt(p0, out0, currentIndent)

\* The switch of ParseValueLossless on the character at the cursor.
ParseValueLosslessAt(p, o, currentIndent) ==
  IF Peek(p) = "{"
  THEN ParseInlineObjectLossless(p, [o EXCEPT !.value = Object(EmptyObject)], currentIndent)
  ELSE IF Peek(p) = "["
  THEN ParseArrayLossless(p, [o EXCEPT !.value = Array(<<>>)], currentIndent)
  ELSE IF Peek(p) = "\"" THEN ScalarLossless(ParseStringOrTriple(p), o)
  ELSE IF Peek(p) = "'" THEN ScalarLossless(ParseStringSingle(p), o)
  ELSE IF IsIdentifierStart(Peek(p))
  THEN ParseIdentifierOrIndentedObjectLossless(p, o, currentIndent)
  ELSE IF IsNumberStart(Peek(p)) THEN ScalarLossless(ParseNumber(p), o)
  ELSE IF EndOfFile(p) THEN LErr(p, "UnexpectedEnd", o)
  ELSE LErr(p, "UnexpectedChar", o)

ParseInlineObjectLossless(p, o, currentIndent) ==
  IF Peek(p) # "{" THEN [p |-> Finish(p, "InternalError"), code |-> "InternalError", out |-> o]
  ELSE With(SkipWhitespaceAndComments(Get(p)), LAMBDA q :
         IF Peek(q) = "}" THEN LRet(Get(q), [o EXCEPT !.value = Object(EmptyObject)])
         ELSE InlineObjectLoopLossless(LAgain(q, o, EmptyObject), currentIndent))

\* The while (true) of ParseInlineObjectLossless.
InlineObjectLoopLossless(st, currentIndent) ==
  IF st.code # Continue THEN st
  ELSE InlineObjectLoopLossless(
         InlineObjectStepLossless(st.p, st.out, st.obj, currentIndent), currentIndent)

\* What follows a value of an inline object; o2 and obj hold the new entry.
InlineObjectNextLossless(p3, o2, obj) ==
  IF Peek(p3) = "}" THEN LRet(Get(p3), [o2 EXCEPT !.value = Object(obj)])
  ELSE IF Peek(p3) # "," THEN LErr(p3, "UnexpectedChar", o2)
  ELSE LAgain(SkipWhitespaceAndComments(Get(p3)), o2, obj)

\* One iteration of the while (true) of ParseInlineObjectLossless.  The pending
\* comments are swapped into preKeyComments, which nothing reads afterwards.
InlineObjectStepLossless(p0, o, object, currentIndent) ==
  With(ParseKey([p0 EXCEPT !.mPendingComments = <<>>]), LAMBDA k :
    IF k.code # OK THEN LPass(k.p, k.code, o)
    ELSE With(SkipWhitespaceAndComments(k.p), LAMBDA p1 :
      IF Peek(p1) # ":" THEN LErr(p1, "UnexpectedChar", o)
      ELSE With(ParseValueLossless(SkipWhitespaceAndComments(Get(p1)), NewLosslessValue,
                                   currentIndent, TRUE), LAMBDA v :
        IF v.code # OK THEN LPass(v.p, v.code, o)
        ELSE InlineObjectNextLossless(SkipWhitespaceAndComments(v.p),
                                      EmplaceBackItem(o, k.key, v.out),
                                      ObjectEmplace(object, k.key, v.out.value)))))

\* The end of a multiline array.
ArrayDoneLossless(q, oo, arr) == LRet(CloseBracket(q), [oo EXCEPT !.value = Array(arr)])

ParseArrayLossless(p, o, parentIndent) ==
  IF Peek(p) # "[" THEN [p |-> Finish(p, "InternalError"), code |-> "InternalError", out |-> o]
  ELSE With(SkipInlineSpaces(Get(p)), LAMBDA p1 :
         IF Peek(p1) \in {"\r", "\n"}
         THEN With(NextContentLineLossless(ConsumeEOL(p1)), LAMBDA n :
                IF n.code # OK THEN LPass(n.p, n.code, o)
                ELSE IF ~n.hasLine \/ Peek(n.p) = "]" THEN ArrayDoneLossless(n.p, o, <<>>)
                ELSE MultilineArrayLoopLossless(LAgain(n.p, o, <<>>), Top(n.p)))
         ELSE With(SkipWhitespaceAndComments(p1), LAMBDA p2 :
                IF Peek(p2) = "]" THEN LRet(Get(p2), [o EXCEPT !.value = Array(<<>>)])
                ELSE InlineArrayLoopLossless(LAgain(p2, o, <<>>), parentIndent)))

\* The while (true) over the elements of a multiline array.
MultilineArrayLoopLossless(st, arrayIndent) ==
  IF st.code # Continue THEN st
  ELSE MultilineArrayLoopLossless(
         MultilineArrayStepLossless(st.p, st.out, st.obj, arrayIndent), arrayIndent)

\* After NextContentLineLossless (its result n) following a comment: no
\* dedent test.
ArrayGoOnLossless(n, oo, arr) ==
  IF n.code # OK THEN LPass(n.p, n.code, oo)
  ELSE IF ~n.hasLine THEN ArrayDoneLossless(n.p, oo, arr)
  ELSE LAgain(n.p, oo, arr)

\* After NextContentLineLossless following a line break.
ArrayNextLineLossless(n, oo, arr, arrayIndent) ==
  IF n.code # OK THEN LPass(n.p, n.code, oo)
  ELSE IF ~n.hasLine \/ Top(n.p) < arrayIndent THEN ArrayDoneLossless(n.p, oo, arr)
  ELSE LAgain(n.p, oo, arr)

\* What follows an element of a multiline array: a comment (kept for the next
\* element when it starts at the array's column, else stored on this one),
\* ']', ',' or a line break.
ArrayAfterValueLossless(p3, o2, arr, arrayIndent) ==
  IF Peek(p3) = "#"
  THEN IF p3.mCol <= arrayIndent + 1
       THEN ArrayGoOnLossless(NextContentLineLossless(PendComment(p3)), o2, arr)
       ELSE With(RestOfLine(Get(p3), <<>>), LAMBDA c :
              ArrayGoOnLossless(NextContentLineLossless(SkipToEOL(c.p)),
                                SetLastArrayComment(o2, c.text), arr))
  ELSE IF Peek(p3) = "]" THEN ArrayDoneLossless(Get(p3), o2, arr)
  ELSE IF Peek(p3) = "," THEN LAgain(SkipWhitespaceAndComments(Get(p3)), o2, arr)
  ELSE IF Peek(p3) \in {"\r", "\n"}
  THEN ArrayNextLineLossless(NextContentLineLossless(ConsumeEOL(p3)), o2, arr, arrayIndent)
  ELSE LErr(p3, "UnexpectedChar", o2)

\* One iteration of the while (true) over the elements of a multiline array.
MultilineArrayStepLossless(p, o, array, arrayIndent) ==
  IF Peek(p) = "]" THEN ArrayDoneLossless(Get(p), o, array)
  ELSE With(ParseValueLossless(p, NewLosslessValue, arrayIndent, FALSE), LAMBDA v :
         IF v.code # OK THEN LPass(v.p, v.code, o)
         ELSE ArrayAfterValueLossless(SkipInlineSpaces(v.p),
                                      [o EXCEPT !.arrayItems = Append(@, v.out)],
                                      Append(array, v.out.value), arrayIndent))

\* The while (true) over the elements of an inline array.
InlineArrayLoopLossless(st, parentIndent) ==
  IF st.code # Continue THEN st
  ELSE InlineArrayLoopLossless(
         InlineArrayStepLossless(st.p, st.out, st.obj, parentIndent), parentIndent)

\* One iteration of the while (true) over the elements of an inline array.
InlineArrayStepLossless(p, o, array, parentIndent) ==
  IF Peek(p) = "]" THEN LRet(Get(p), [o EXCEPT !.value = Array(array)])
  ELSE With(ParseValueLossless(p, NewLosslessValue, parentIndent, TRUE), LAMBDA v :
         IF v.code # OK THEN LPass(v.p, v.code, o)
         ELSE With(SkipWhitespaceAndComments(v.p), LAMBDA p3 :
                IF Peek(p3) = "]"
                THEN LRet(Get(p3), [o EXCEPT !.arrayItems = Append(@, v.out),
                                             !.value = Array(Append(array, v.out.value))])
                ELSE IF Peek(p3) # ","
                THEN LErr(p3, "UnexpectedChar", [o EXCEPT !.arrayItems = Append(@, v.out)])
                ELSE LAgain(SkipWhitespaceAndComments(Get(p3)),
                            [o EXCEPT !.arrayItems = Append(@, v.out)],
                            Append(array, v.out.value))))

\* The end of ParseIndentedObjectBodyLossless in its caller: the Object is
\* stored in out.value when the body was read.
BodyValue(b) ==
  IF b.code # OK THEN LPass(b.p, b.code, b.out)
  ELSE LRet(b.p, [b.out EXCEPT !.value = Object(b.obj)])

ParseIdentifierOrIndentedObjectLossless(p, o, currentIndent) ==
  With(ReadIdentifier(p, <<>>), LAMBDA r :
    With(SkipInlineSpaces(r.p), LAMBDA q :
      IF Peek(q) = ":"
      THEN BodyValue(IndentedObjectLoopLossless(
                       LAgain([q EXCEPT !.mPos = @ - Len(r.ident), !.mCol = @ - Len(r.ident)],
                              o, EmptyObject),
                       Top(q), currentIndent))
      ELSE IF r.ident = <<"t","r","u","e">> THEN LRet(q, [o EXCEPT !.value = Bool(TRUE)])
      ELSE IF r.ident = <<"f","a","l","s","e">> THEN LRet(q, [o EXCEPT !.value = Bool(FALSE)])
      ELSE IF r.ident = <<"n","u","l","l">> THEN LRet(q, [o EXCEPT !.value = Null])
      ELSE LRet(q, [o EXCEPT !.value = String(r.ident)])))

\* The while (true) of ParseIndentedObjectBodyLossless.
IndentedObjectLoopLossless(st, bodyIndent, parentIndent) ==
  IF st.code # Continue THEN st
  ELSE IndentedObjectLoopLossless(
         IndentedObjectStepLossless(st.p, st.out, st.obj, bodyIndent, parentIndent),
         bodyIndent, parentIndent)

\* After NextContentLineLossless (its result n) where the body may go on.
ObjectGoOnLossless(n, oo, ob, bodyIndent) ==
  IF n.code # OK THEN BodyPass(n.p, n.code, oo, ob)
  ELSE IF ~n.hasLine THEN BodyStop(n.p, oo, ob)
  ELSE IF Top(n.p) < bodyIndent THEN BodyStop(n.p, oo, ob)
  ELSE LAgain(n.p, oo, ob)

\* One iteration of the while (true) of ParseIndentedObjectBodyLossless.  The
\* pending comments are swapped into preKeyComments and become the leading
\* comments of the entry's child.
IndentedObjectStepLossless(p0, o, object, bodyIndent, parentIndent) ==
  With(SkipInlineSpaces(p0), LAMBDA p :
    IF EndOfFile(p) THEN BodyStop(p, o, object)
    ELSE IF Peek(p) \in {"#", "\r", "\n"}
    THEN ObjectGoOnLossless(NextContentLineLossless(p), o, object, bodyIndent)
    ELSE IF ~IsIdentifierStart(Peek(p)) /\ Peek(p) # "\"" /\ Peek(p) # "'"
    THEN BodyStop(p, o, object)
    ELSE ObjectEntryLossless(ParseKey([p EXCEPT !.mPendingComments = <<>>]),
                             WithLeading(NewLosslessValue, p.mPendingComments),
                             o, object, bodyIndent, parentIndent))

\* After ParseKey (its result k): the ':' of the entry.
ObjectEntryLossless(k, child, o, object, bodyIndent, parentIndent) ==
  IF k.code # OK THEN BodyPass(k.p, k.code, o, object)
  ELSE With(SkipInlineSpaces(k.p), LAMBDA p2 :
         IF Peek(p2) # ":" THEN BodyFail(p2, "UnexpectedChar", o, object)
         ELSE ObjectValueLossless(SkipInlineSpaces(Get(p2)), k.key, child, o, object,
                                  bodyIndent, parentIndent))

\* What follows a same-line value: a comment (kept for the next entry when it
\* starts at the body's column, else stored on this one), ',', a line break
\* or the end of the body.
ObjectAfterValueLossless(p5, o2, obj, bodyIndent) ==
  IF Peek(p5) = "#"
  THEN IF p5.mCol <= bodyIndent + 1
       THEN ObjectGoOnLossless(NextContentLineLossless(PendComment(p5)), o2, obj, bodyIndent)
       ELSE With(RestOfLine(Get(p5), <<>>), LAMBDA cm :
              ObjectGoOnLossless(NextContentLineLossless(SkipToEOL(cm.p)),
                                 SetLastObjectComment(o2, cm.text), obj, bodyIndent))
  ELSE IF Peek(p5) = "," THEN LAgain(SkipInlineSpaces(Get(p5)), o2, obj)
  ELSE IF Peek(p5) \in {"\r", "\n"}
  THEN ObjectGoOnLossless(NextContentLineLossless(ConsumeEOL(p5)), o2, obj, bodyIndent)
  ELSE BodyStop(p5, o2, obj)

\* The value v read on the line of its key.
ObjectInlineLossless(v, key, o, object, bodyIndent) ==
  IF v.code # OK THEN BodyPass(v.p, v.code, o, object)
  ELSE ObjectAfterValueLossless(SkipInlineSpaces(v.p), EmplaceBackItem(o, key, v.out),
                                ObjectEmplace(object, key, v.out.value), bodyIndent)

\* After the ':' and the spaces that follow it.
ObjectValueLossless(p3, key, child, o, object, bodyIndent, parentIndent) ==
  IF Peek(p3) \in {"#", "\r", "\n"}
  THEN ObjectBlockLossless(
         NextContentLineLossless(IF Peek(p3) = "#" THEN SkipToEOL(p3) ELSE ConsumeEOL(p3)),
         key, child, o, object, bodyIndent)
  ELSE ObjectInlineLossless(ParseValueLossless(p3, child, parentIndent, TRUE),
                            key, o, object, bodyIndent)

\* A comment after a block value is skipped.
SkipBlockComment(b1) == IF Peek(b1) = "#" THEN SkipToEOL(b1) ELSE b1

\* What follows a block value.
ObjectAfterBlockLossless(b2, bo, bobj, bodyIndent) ==
  IF Peek(b2) \in {"\r", "\n"}
  THEN ObjectGoOnLossless(NextContentLineLossless(ConsumeEOL(b2)), bo, bobj, bodyIndent)
  ELSE IF Top(b2) < bodyIndent THEN BodyStop(b2, bo, bobj)
  ELSE LAgain(b2, bo, bobj)

\* The block value read from the next content line, found by n.
ObjectBlockLossless(n, key, child, o, object, bodyIndent) ==
  IF n.code # OK THEN BodyPass(n.p, n.code, o, object)
  ELSE IF ~n.hasLine THEN BodyFail(n.p, "InconsistentIndent", o, object)
  ELSE IF Top(n.p) <= bodyIndent THEN BodyFail(n.p, "InconsistentIndent", o, object)
  ELSE With(ParseValueLossless(n.p, child, Top(n.p), FALSE), LAMBDA bv :
         IF bv.code # OK THEN BodyPass(bv.p, bv.code, o, object)
         ELSE ObjectAfterBlockLossless(SkipBlockComment(SkipInlineSpaces(bv.p)),
                                       EmplaceBackItem(o, key, bv.out),
                                       ObjectEmplace(object, key, bv.out.value), bodyIndent))

\* What Finish(code, error) stores in *error when no message is given.
FinishError(p, code) ==
  IF p.mError.code # OK THEN p.mError
  ELSE [code |-> code, line |-> p.mLine, column |-> p.mCol]

\* The end of LosslessParser::Parse: pc is the instance after the trailing
\* whitespace and comments, o the value read into `out`.
LosslessTrailing(pc, o) ==
  With([pc EXCEPT !.mPendingComments = <<>>, !.mIndentStack = <<0>>], LAMBDA pd :
    IF ~EndOfFile(pd)
    THEN [p |-> FinishMessage(pd, "UnexpectedChar"), code |-> "UnexpectedChar",
          out |-> [o EXCEPT !.trailingComments = @ \o pc.mPendingComments],
          error |-> FinishMessage(pd, "UnexpectedChar").mError]
    ELSE [p |-> pd, code |-> OK,
          out |-> [o EXCEPT !.trailingComments = @ \o pc.mPendingComments],
          error |-> NoError])

\* LosslessParser::Parse after ParseValueLossless (its result r), which has
\* worked on the caller's `out`.
LosslessDocument(r) ==
  IF r.code # OK
  THEN [p |-> Finish(r.p, r.code), code |-> r.code, out |-> r.out,
        error |-> FinishError(Finish(r.p, r.code), r.code)]
  ELSE LosslessTrailing(SkipTrailing(r.p), r.out)

\* LosslessParser::Parse after the first NextContentLineLossless (its result
\* n): a document without a content line is an error.
LosslessFirstLine(n, out0) ==
  IF n.code # OK
  THEN [p |-> Finish(n.p, n.code), code |-> n.code, out |-> out0,
        error |-> FinishError(Finish(n.p, n.code), n.code)]
  ELSE IF ~n.hasLine
  THEN [p |-> FinishMessage(n.p, "UnexpectedEnd"), code |-> "UnexpectedEnd", out |-> out0,
        error |-> FinishMessage(n.p, "UnexpectedEnd").mError]
  ELSE LosslessDocument(ParseValueLossless(n.p, out0, 0, TRUE))

\* LosslessParser::Parse(out, error) on the instance p0, with a non-null
\* error: [p, code, out, error] as for ParserParse, out a LosslessValue.
LosslessParserParse(p0, out0, error0) ==
  With(ValidateUTF8(p0.mSrc, TRUE), LAMBDA u :
    IF ~u.ok
    THEN ParseInvalid(Fail([p0 EXCEPT !.mError = NoError, !.mPos = u.badIndex,
                                      !.mLine = u.badLine, !.mCol = u.badCol],
                           "InvalidUtf8"), out0)
    ELSE LosslessFirstLine(
           NextContentLineLossless(
             IF HasBOM(p0.mSrc)
             THEN [p0 EXCEPT !.mError = NoError, !.mPos = 3, !.mCol = 1, !.mLine = 1]
             ELSE [p0 EXCEPT !.mError = NoError]), out0))

\* The free function ParseLossless(src, out, error): a new LosslessParser.
ParseLossless(s, out0, error0) == LosslessParserParse(NewParser(s), out0, error0)

---------------------------------------------------------------------------
(* The writer.  Every function of the writer only appends to its `out`     *)
(* string, so each is modelled by the text it appends.                     *)

\* WriteOptions with its default member initialisers.
DefaultIndentWidth == 2

DefaultOptions == [indentWidth |-> DefaultIndentWidth, sortObjectKeys |-> FALSE]

Root == "Root"
InObject == "InObject"
InArray == "InArray"

RECURSIVE Spaces(_)
Spaces(n) == IF n <= 0 THEN <<>> ELSE <<" ">> \o Spaces(n - 1)

WriteIndent(level, width) == Spaces(level * width)

\* The concatenation of parts[1..n], sep between two neighbours.
RECURSIVE JoinSep(_, _, _)
JoinSep(parts, sep, n) ==
  IF n = 0 THEN <<>>
  ELSE IF n = 1 THEN parts[1]
  ELSE JoinSep(parts, sep, n - 1) \o sep \o parts[n]

\* operator< of std::string_view: bytes compared as unsigned char.
RECURSIVE LessKey(_, _, _)
LessKey(a, b, i) ==
  IF i > Len(b) THEN FALSE
  ELSE IF i > Len(a) THEN TRUE
  ELSE IF ByteVal(a[i]) < ByteVal(b[i]) THEN TRUE
  ELSE IF ByteVal(a[i]) > ByteVal(b[i]) THEN FALSE
  ELSE LessKey(a, b, i + 1)

\* The keys of S in ascending order.
RECURSIVE SortedKeys(_)
SortedKeys(S) ==
  IF S = {} THEN <<>>
  ELSE With(CHOOSE k \in S : \A j \in S \ {k} : LessKey(k, j, 1), LAMBDA least :
         <<least>> \o SortedKeys(S \ {least}))

Reverse(s) == [i \in 1..Len(s) |-> s[Len(s) + 1 - i]]

\* OrderedObjectItems: the keys in the order the items are written.  The
\* iteration order of std::unordered_map is that of the build's hash table;
\* hashDesc picks between two orders a build may have.
OrderedObjectItems(object, sortKeys) ==
  IF sortKeys \/ ~hashDesc THEN SortedKeys(DOMAIN object)
  ELSE Reverse(SortedKeys(DOMAIN object))

\* std::stable ordering of items (positions of objectItems) by key.
RECURSIVE SortedPositions(_, _)
SortedPositions(items, P) ==
  IF P = {} THEN <<>>
  ELSE With(CHOOSE i \in P : \A j \in P \ {i} :
                           LessKey(items[i].key, items[j].key, 1)
                           \/ (~LessKey(items[j].key, items[i].key, 1) /\ i < j),
            LAMBDA least : <<least>> \o SortedPositions(items, P \ {least}))

\* OrderedLosslessItems: the positions of objectItems in writing order.
OrderedLosslessItems(items, sortKeys) ==
  IF sortKeys THEN SortedPositions(items, 1..Len(items))
  ELSE [i \in 1..Len(items) |-> i]

EscapeQuoted(c) ==
  IF c = "\"" THEN <<"\\", "\"">>
  ELSE IF c = "\\" THEN <<"\\", "\\">>
  ELSE IF c = "\n" THEN <<"\\", "n">>
  ELSE IF c = "\r" THEN <<"\\", "r">>
  ELSE IF c = "\t" THEN <<"\\", "t">>
  ELSE <<c>>

WriteStringQuoted(value) ==
  <<"\"">> \o JoinSep([i \in 1..Len(value) |-> EscapeQuoted(value[i])], <<>>, Len(value))
           \o <<"\"">>

\* The decimal digits of a natural number.
RECURSIVE Decimal(_)
Decimal(n) == IF n < 10 THEN <<CharOf(ByteVal("0") + n)>>
              ELSE Decimal(n \div 10) \o <<CharOf(ByteVal("0") + (n % 10))>>

\* n written with at least w digits, zeros in front.
RECURSIVE Padded(_, _)
Padded(n, w) == IF Len(Decimal(n)) >= w THEN Decimal(n)
                ELSE <<"0">> \o Padded(n, w - 1)

FractionDigits == 6

\* The digits of a value scaled by 10^FractionDigits, its sign apart.
FixedPoint(negative, scaled) ==
  (IF negative THEN <<"-">> ELSE <<>>)
  \o Decimal(scaled \div Pow10(FractionDigits)) \o <<".">>
  \o Padded(scaled % Pow10(FractionDigits), FractionDigits)

\* a / unit rounded to the nearest integer, a tie to the even neighbour.
RoundedQuotient(a, unit) ==
  IF 2 * (a % unit) > unit \/ (2 * (a % unit) = unit /\ (a \div unit) % 2 = 1)
  THEN (a \div unit) + 1
  ELSE a \div unit

\* |d| * 10^FractionDigits, rounded, for the magnitude a of d's mantissa.
Scaled(a, e) ==
  IF e >= 0 THEN a * Pow10(e) * Pow10(FractionDigits)
  ELSE IF 0 - e <= FractionDigits THEN a * Pow10(FractionDigits + e)
  ELSE RoundedQuotient(a, Pow10(0 - e - FractionDigits))

\* std::to_string(double): "%f", six digits after the point, the value rounded
\* to them.  A decimal exactly half way between two results is not a double;
\* the literals of the model have none, and the even neighbour stands for it.
DoubleToString(d) ==
  FixedPoint(d.m < 0, Scaled(IF d.m < 0 THEN 0 - d.m ELSE d.m, d.e))

MaxSimpleString == 32

MaxInlineArray == 3

IsSimpleScalar(value) ==
  IF value.t \in {"null", "bool", "num"} THEN TRUE
  ELSE IF value.t = "str"
  THEN (\A i \in 1..Len(value.v) : value.v[i] # "\n") /\ Len(value.v) <= MaxSimpleString
  ELSE FALSE

CanInlineArray(array) ==
  IF Len(array) > MaxInlineArray THEN FALSE
  ELSE \A i \in 1..Len(array) : IsSimpleScalar(array[i])

\* The bareOK test of WriteObject and the key as it is written.
BareOK(key) ==
  IF Len(key) = 0 THEN FALSE
  ELSE (key[1] \in Upper \/ key[1] \in Lower \/ key[1] = "_")
       /\ \A i \in 1..Len(key) :
            key[i] \in Upper \/ key[i] \in Lower \/ key[i] \in Digit
            \/ key[i] = "_" \/ key[i] = "-"

WriteKey(key) == IF BareOK(key) THEN key ELSE WriteStringQuoted(key)

RECURSIVE WriteValueInline(_, _)
RECURSIVE WriteObject(_, _, _, _, _)
RECURSIVE WriteObjectItem(_, _, _, _, _)
RECURSIVE WriteObjectItems(_, _, _, _, _, _)
RECURSIVE WriteArray(_, _, _, _)
RECURSIVE WriteValue(_, _, _, _)

WriteValueInline(value, options) ==
  IF value.t = "null" THEN <<"n","u","l","l">>
  ELSE IF value.t = "bool"
  THEN (IF value.v THEN <<"t","r","u","e">> ELSE <<"f","a","l","s","e">>)
  ELSE IF value.t = "num" THEN DoubleToString(value.v)
  ELSE IF value.t = "str" THEN WriteStringQuoted(value.v)
  ELSE IF value.t = "arr"
  THEN <<"[">> \o JoinSep([i \in 1..Len(value.v) |-> WriteValueInline(value.v[i], options)],
                          <<",", " ">>, Len(value.v))
               \o <<"]">>
  ELSE WriteObject(value.v, 0, options, InArray, FALSE)

\* A value that WriteObject writes on the lines after its key.
BlockValue(v) == v.t = "obj" \/ (v.t = "arr" /\ ~CanInlineArray(v.v))

\* One item of an object written as a block; indent tells whether the line is
\* indented (every line but a first one with indentFirstLine unset).
WriteObjectItem(key, v, indentLevel, options, indent) ==
  (IF indent THEN WriteIndent(indentLevel, options.indentWidth) ELSE <<>>)
  \o WriteKey(key) \o <<":", " ">>
  \o (IF BlockValue(v)
      THEN <<"\n">> \o WriteValue(v, indentLevel + 1, options, InObject)
      ELSE WriteValue(v, indentLevel, options, InObject))

\* WriteObject once the items are ordered: items is the sequence of keys.
WriteObjectItems(object, items, indentLevel, options, ctx, indentFirstLine) ==
  IF ctx = InArray
  THEN <<"{">> \o JoinSep([i \in 1..Len(items) |->
                            WriteKey(items[i]) \o <<":", " ">>
                            \o WriteValueInline(object[items[i]], options)],
                          <<",", " ">>, Len(items))
               \o <<"}">>
  ELSE IF Len(items) = 0
  THEN (IF indentFirstLine THEN WriteIndent(indentLevel, options.indentWidth) ELSE <<>>)
       \o <<"{", "}">>
  ELSE JoinSep([i \in 1..Len(items) |->
                 WriteObjectItem(items[i], object[items[i]], indentLevel, options,
                                 i > 1 \/ indentFirstLine)],
               <<"\n">>, Len(items))

WriteObject(object, indentLevel, options, ctx, indentFirstLine) ==
  WriteObjectItems(object, OrderedObjectItems(object, options.sortObjectKeys),
                   indentLevel, options, ctx, indentFirstLine)

WriteArray(array, indentLevel, options, ctx) ==
  LET element(i) ==
        WriteIndent(indentLevel + 1, options.indentWidth)
        \o (IF array[i].t = "obj"
            THEN WriteObject(array[i].v, indentLevel + 1, options, InArray, FALSE)
            ELSE WriteValue(array[i], indentLevel + 1, options, InArray))
  IN IF Len(array) = 0 THEN <<"[", "]">>
     ELSE IF (\A i \in 1..Len(array) : IsSimpleScalar(array[i])) /\ Len(array) <= MaxInlineArray
     THEN <<"[">> \o JoinSep([i \in 1..Len(array) |->
                               WriteValue(array[i], indentLevel, options, InArray)],
                             <<",", " ">>, Len(array))
                  \o <<"]">>
     ELSE (IF ctx # InArray THEN WriteIndent(indentLevel, options.indentWidth) ELSE <<>>)
          \o <<"[", "\n">>
          \o JoinSep([i \in 1..Len(array) |-> element(i)], <<"\n">>, Len(array))
          \o <<"\n">> \o WriteIndent(indentLevel, options.indentWidth) \o <<"]">>

WriteValue(value, indentLevel, options, ctx) ==
  IF value.t = "null" THEN <<"n","u","l","l">>
  ELSE IF value.t = "bool"
  THEN (IF value.v THEN <<"t","r","u","e">> ELSE <<"f","a","l","s","e">>)
  ELSE IF value.t = "num" THEN DoubleToString(value.v)
  ELSE IF value.t = "str"
  THEN IF \E i \in 1..Len(value.v) : value.v[i] = "\n"
       THEN <<"\"", "\"", "\"">> \o value.v \o <<"\"", "\"", "\"">>
       ELSE WriteStringQuoted(value.v)
  ELSE IF value.t = "arr" THEN WriteArray(value.v, indentLevel, options, ctx)
  ELSE WriteObject(value.v, indentLevel, options, ctx, TRUE)

\* havCSON::ToString (the name ToString is taken by the TLC module).
ToStringPlain(value, options) == WriteValue(value, 0, options, Root)

\* The switch of Writer::JsonString on one character of the string.
JsonEscape(c) ==
  IF c = "\"" THEN <<"\\", "\"">>
  ELSE IF c = "\\" THEN <<"\\", "\\">>
  ELSE IF c = "\n" THEN <<"\\", "n">>
  ELSE IF c = "\r" THEN <<"\\", "r">>
  ELSE IF c = "\t" THEN <<"\\", "t">>
  ELSE <<c>>

\* Writer::JsonString of ToJsonString: what it appends for a string or key.
JsonString(value) ==
  <<"\"">> \o JoinSep([i \in 1..Len(value) |-> JsonEscape(value[i])], <<>>, Len(value))
           \o <<"\"">>

\* Writer::Write of ToJsonString: what it appends for a value.
RECURSIVE JsonWrite(_)
JsonWrite(value) ==
  IF value.t = "null" THEN <<"n","u","l","l">>
  ELSE IF value.t = "bool"
  THEN (IF value.v THEN <<"t","r","u","e">> ELSE <<"f","a","l","s","e">>)
  ELSE IF value.t = "num" THEN DoubleToString(value.v)
  ELSE IF value.t = "str" THEN JsonString(value.v)
  ELSE IF value.t = "arr"
  THEN <<"[">> \o JoinSep([i \in 1..Len(value.v) |-> JsonWrite(value.v[i])],
                          <<",">>, Len(value.v))
             \o <<"]">>
  ELSE With(OrderedObjectItems(value.v, FALSE), LAMBDA keys :
         <<"{">> \o JoinSep([i \in 1..Len(keys) |->
                               JsonString(keys[i]) \o <<":">> \o JsonWrite(value.v[keys[i]])],
                            <<",">>, Len(keys))
               \o <<"}">>)

\* havCSON::ToJsonString.
ToJsonString(value) == JsonWrite(value)

\* WriteCommentLines, from line i on; prevNonEmpty is the loop's flag.
RECURSIVE CommentLinesFrom(_, _, _)
CommentLinesFrom(lines, i, prevNonEmpty) ==
  IF i > Len(lines) THEN <<>>
  ELSE IF Len(lines[i].text) = 0
  THEN <<"\n">> \o CommentLinesFrom(lines, i + 1, FALSE)
  ELSE (IF prevNonEmpty THEN <<"\n">> ELSE <<>>)
       \o WriteIndent(lines[i].indent, 1) \o lines[i].text \o <<"\n">>
       \o CommentLinesFrom(lines, i + 1, TRUE)

WriteCommentLines(lines, options) == CommentLinesFrom(lines, 1, FALSE)

RECURSIVE trimTrailingSpaces(_)
trimTrailingSpaces(value) ==
  IF Len(value) > 0 /\ value[Len(value)] \in {" ", "\t"}
  THEN trimTrailingSpaces(SubSeq(value, 1, Len(value) - 1))
  ELSE value

writeInlineComment(value) == IF Len(value) > 0 THEN <<" ", "#">> \o value ELSE <<>>

RECURSIVE WriteLosslessValue(_, _, _, _)
RECURSIVE WriteIndentedItem(_, _, _, _)
RECURSIVE WriteLosslessItems(_, _, _, _, _)

\* An item of an object met inside an array: written between braces.
WriteBracedItem(key, child, indentLevel, options) ==
  WriteCommentLines(child.leadingComments, options)
  \o WriteIndent(indentLevel + 1, options.indentWidth) \o key \o <<":", " ">>
  \o WriteValue(child.value, indentLevel + 1, options, InObject)
  \o writeInlineComment(child.inlineComment)

\* An item of an indented object; the child is written with its
\* leadingComments cleared, then restored.
WriteIndentedItem(key, child, indentLevel, options) ==
  WriteCommentLines(child.leadingComments, options)
  \o WriteIndent(indentLevel, options.indentWidth) \o key \o <<":">>
  \o (IF child.value.t \in {"obj", "arr"}
      THEN <<"\n">> \o WriteLosslessValue([child EXCEPT !.leadingComments = <<>>],
                                         indentLevel + 1, options, InObject)
      ELSE <<" ">> \o WriteValue(child.value, indentLevel, options, InObject))
  \o writeInlineComment(trimTrailingSpaces(child.inlineComment))

\* The object branch of WriteLosslessValue once the items are ordered: items
\* is the sequence of positions of objectItems.
WriteLosslessItems(objectItems, items, indentLevel, options, ctx) ==
  IF ctx = InArray
  THEN <<"{", "\n">>
       \o JoinSep([i \in 1..Len(items) |->
                    WriteBracedItem(objectItems[items[i]].key, objectItems[items[i]].item,
                                    indentLevel, options)],
                  <<"\n">>, Len(items))
       \o <<"\n">> \o WriteIndent(indentLevel, options.indentWidth) \o <<"}">>
  ELSE JoinSep([i \in 1..Len(items) |->
                 WriteIndentedItem(objectItems[items[i]].key, objectItems[items[i]].item,
                                   indentLevel, options)],
               <<"\n">>, Len(items))

WriteLosslessValue(value, indentLevel, options, ctx) ==
  WriteCommentLines(value.leadingComments, options)
  \o (IF value.value.t = "arr" /\ Len(value.arrayItems) > 0
      THEN WriteIndent(indentLevel, options.indentWidth) \o <<"[", "\n">>
           \o JoinSep([i \in 1..Len(value.arrayItems) |->
                        WriteLosslessValue(value.arrayItems[i], indentLevel + 1, options,
                                           InArray)],
                      <<"\n">>, Len(value.arrayItems))
           \o <<"\n">> \o WriteIndent(indentLevel, options.indentWidth) \o <<"]">>
      ELSE IF value.value.t = "obj" /\ Len(value.objectItems) > 0
      THEN WriteLosslessItems(value.objectItems,
                              OrderedLosslessItems(value.objectItems, options.sortObjectKeys),
                              indentLevel, options, ctx)
      ELSE WriteIndent(indentLevel, options.indentWidth)
           \o WriteValue(value.value, indentLevel, options, ctx)
           \o writeInlineComment(value.inlineComment))

ToStringLossless(value, options) == WriteLosslessValue(value, 0, options, Root)

---------------------------------------------------------------------------
(* The documents the parsers are run on *)

\* the duplicated key of the spec's example: a: 1\na: 2
DocDuplicateKey ==
  <<"a",":"," ","1","\n","a",":"," ","2">>

\* the empty document: 
DocEmpty ==
  <<>>

\* a document of one comment: # c
DocCommentOnly ==
  <<"#"," ","c">>

\* a first line with leading spaces:   a: 1
DocLeadingSpaces ==
  <<" "," ","a",":"," ","1">>

\* a key that needs quoting: {"a b": 1}
DocQuotedKey ==
  <<"{","\"","a"," ","b","\"",":"," ","1","}">>

\* nested blocks and an inline array: a:\n  b: 1\nd: [1, x]
DocNested ==
  <<"a",":","\n"," "," ","b",":"," ","1","\n",
    "d",":"," ","[","1",","," ","x","]">>

\* a 3-space element after ',' under a 2-space unit: [\n  1,\n   2\n]
DocArrayBadIndent ==
  <<"[","\n"," "," ","1",",","\n"," "," "," ","2","\n","]">>

\* a 3-space element after a newline under a 2-space unit: [\n  1\n   2\n]
DocArrayBadIndentLine ==
  <<"[","\n"," "," ","1","\n"," "," "," ","2","\n","]">>

\* a 3-space sibling under a 2-space unit: a:\n  b: 1\n   c: 2
DocSiblingBadIndent ==
  <<"a",":","\n"," "," ","b",":"," ","1","\n"," "," "," ","c",":"," ","2">>

\* a 2-space first line, then 3 spaces:   a: 1\n   b: 2
DocFirstLineUnit ==
  <<" "," ","a",":"," ","1","\n"," "," "," ","b",":"," ","2">>

\* characters after the top-level value: 1 2
DocTrailing ==
  <<"1"," ","2">>

\* a comment after the root value: a: 1\n# end
DocTrailingComment ==
  <<"a",":"," ","1","\n","#"," ","e","n","d">>

\* an array that is not closed: [1, 
DocUnclosedArray ==
  <<"[","1",","," ">>

\* a pair, then an array that is not closed: a: 1\nb: [
DocUnclosedObject ==
  <<"a",":"," ","1","\n","b",":"," ","[">>

\* a string with an escaped newline: a: "x\\ny"
DocNewlineString ==
  <<"a",":"," ","\"","x","\\","n","y","\"">>

\* a string with a quote and a newline: a: "q\\"\\n"
DocQuoteString ==
  <<"a",":"," ","\"","q","\\","\"","\\","n","\"">>

\* empty containers: a: []\nb: {}
DocEmptyContainers ==
  <<"a",":"," ","[","]","\n","b",":"," ","{","}">>

\* a number below the writer's six decimals: a: 0.0000001
DocSmallNumber ==
  <<"a",":"," ","0",".","0","0","0","0","0","0","1">>

\* leading and inline comments: # head\na: 1 # tail\nb:\n  # inner\n  c: 2
DocComments ==
  <<"#"," ","h","e","a","d","\n","a",":"," ","1"," ","#"," ","t","a","i",
    "l","\n","b",":","\n"," "," ","#"," ","i","n","n","e","r","\n"," "," ",
    "c",":"," ","2">>

\* two comment lines before a key: # one\n# two\na: 1
DocTwoComments ==
  <<"#"," ","o","n","e","\n","#"," ","t","w","o","\n","a",":"," ","1">>

\* a multiline array as a value: a: [\n  1\n  2\n]\nb: 3
DocMultilineArray ==
  <<"a",":"," ","[","\n"," "," ","1","\n"," "," ","2","\n","]","\n","b",":",
    " ","3">>

\* an array too long to be written inline: [1, 2, 3, 4]
DocLongArray ==
  <<"[","1",","," ","2",","," ","3",","," ","4","]">>

\* an array of an object and an array: [{a: 1}, [2]]
DocArrayOfContainers ==
  <<"[","{","a",":"," ","1","}",","," ","[","2","]","]">>

\* a multiline array of indented pairs: [\n  a: 1\n  b: 2\n]
DocArrayOfBlocks ==
  <<"[","\n"," "," ","a",":"," ","1","\n"," "," ","b",":"," ","2","\n","]">>

\* a space between the key and ':': key : 1
DocKeySpace ==
  <<"k","e","y"," ",":"," ","1">>

\* an escape that does not exist: a: "\\x"
DocBadEscape ==
  <<"a",":"," ","\"","\\","x","\"">>

\* a string that is not closed: a: "abc
DocUnterminated ==
  <<"a",":"," ","\"","a","b","c">>

\* a tab in the leading indentation: a:\n\tb: 1
DocTab ==
  <<"a",":","\n","\t","b",":"," ","1">>

\* two pairs on one line: a: 1, b: 2
DocInlineComma ==
  <<"a",":"," ","1",","," ","b",":"," ","2">>

\* a blank line between two pairs: a: 1\n\nb: 2
DocBlankLine ==
  <<"a",":"," ","1","\n","\n","b",":"," ","2">>

\* a scalar document: true
DocTrue ==
  <<"t","r","u","e">>

\* an unquoted string: x
DocBareString ==
  <<"x">>

\* a quoted string: "s"
DocString ==
  <<"\"","s","\"">>

\* a negative number: -3
DocNegative ==
  <<"-","3">>

\* a number with a fraction: b: 1.5
DocFraction ==
  <<"b",":"," ","1",".","5">>

\* a byte order mark: \xef\xbb\xbfa: 1
DocBOM ==
  <<"xEF","xBB","xBF","a",":"," ","1">>

\* a byte that is not UTF-8: a: \xff
DocInvalidUtf8 ==
  <<"a",":"," ","xFF">>

\* a key with no block under it: a:\nb: 1
DocBlockMissing ==
  <<"a",":","\n","b",":"," ","1">>

\* CRLF line ends: a: 1\r\nb: 2\r\n
DocCRLF ==
  <<"a",":"," ","1","\r","\n","b",":"," ","2","\r","\n">>

\* nested braces: {a: {b: 1}, c: [1, 2]}
DocBracedNested ==
  <<"{","a",":"," ","{","b",":"," ","1","}",","," ","c",":"," ","[","1",",",
    " ","2","]","}">>

Corpus ==
  {DocDuplicateKey, DocEmpty, DocCommentOnly, DocLeadingSpaces,
   DocQuotedKey, DocNested, DocArrayBadIndent, DocArrayBadIndentLine,
   DocSiblingBadIndent, DocFirstLineUnit, DocTrailing, DocTrailingComment,
   DocUnclosedArray, DocUnclosedObject, DocNewlineString, DocQuoteString,
   DocEmptyContainers, DocSmallNumber, DocComments, DocTwoComments,
   DocMultilineArray, DocLongArray, DocArrayOfContainers, DocArrayOfBlocks,
   DocKeySpace, DocBadEscape, DocUnterminated, DocTab,
   DocInlineComma, DocBlankLine, DocTrue, DocBareString,
   DocString, DocNegative, DocFraction, DocBOM,
   DocInvalidUtf8, DocBlockMissing, DocCRLF, DocBracedNested}

\* a tab before the first character of the document: \ta: 1
DocTabFirstLine ==
  <<"\t","a",":"," ","1">>

\* a tab before an element that follows ',' and a line break: [\n  1,\n\t2\n]
DocTabAfterComma ==
  <<"[","\n"," "," ","1",",","\n","\t","2","\n","]">>

\* a document of one tab: \t
DocTabOnly ==
  <<"\t">>

\* a document of one line break: \r\n
DocCRLFOnly ==
  <<"\r","\n">>

\* a line that starts with the character '\0': a: 1\n\0
DocNulLine ==
  <<"a",":"," ","1","\n",NUL>>

\* a block under a 3-space unit: a:\n   b: 1
DocThreeSpaces ==
  <<"a",":","\n"," "," "," ","b",":"," ","1">>

\* a continuation byte alone: \x80
DocLoneContinuation ==
  <<"x80">>

\* a '}' no object has opened, then a sequence cut short: a: 1 }\n\xc3
DocTruncated ==
  <<"a",":"," ","1"," ","}","\n","xC3">>

\* an array that is not closed, then a continuation byte alone: [1,\n\x80
DocUnclosedThenInvalid ==
  <<"[","1",",","\n","x80">>

\* a byte that is no continuation byte in a sequence: a: "\xe2(\xa1"
DocBadContinuation ==
  <<"a",":"," ","\"","xE2","(","xA1","\"">>

\* U+0000 in two bytes: a: "\xc0\x80"
DocOverlong ==
  <<"a",":"," ","\"","xC0","x80","\"">>

\* the surrogate U+D800 in three bytes: a: "\xed\xa0\x80"
DocSurrogateBytes ==
  <<"a",":"," ","\"","xED","xA0","x80","\"">>

\* U+110000 in four bytes: a: "\xf4\x90\x80\x80"
DocAboveMax ==
  <<"a",":"," ","\"","xF4","x90","x80","x80","\"">>

\* U+00E9 in two bytes: a: "\xc3\xa9"
DocTwoBytes ==
  <<"a",":"," ","\"","xC3","xA9","\"">>

\* a byte order mark inside a string: a: "\xef\xbb\xbf"
DocBOMInString ==
  <<"a",":"," ","\"","xEF","xBB","xBF","\"">>

\* two byte order marks: \xef\xbb\xbf\xef\xbb\xbfa: 1
DocBOMTwice ==
  <<"xEF","xBB","xBF","xEF","xBB","xBF","a",":"," ","1">>

\* a byte order mark, a value and a '}' no object has opened: \xef\xbb\xbf1 }
DocBOMThenJunk ==
  <<"xEF","xBB","xBF","1"," ","}">>

\* a byte order mark and a bare word: \xef\xbb\xbfx
DocBOMWord ==
  <<"xEF","xBB","xBF","x">>

\* The two quote characters of a string.
Quotes == {"\"", "'"}

\* Halves of surrogate pairs as the four hex digits of a \u escape: the first
\* and the last of each range, and the halves of U+1F600.
HighHalves == {<<"D","8","0","0">>, <<"d","8","3","D">>, <<"D","B","F","F">>}
LowHalves == {<<"D","C","0","0">>, <<"D","e","0","0">>, <<"D","F","F","F">>}

\* A quoted string of one escaped surrogate pair: "\uHHHH\uLLLL".
PairText(q, hi, lo) == <<q, "\\", "u">> \o hi \o <<"\\", "u">> \o lo \o <<q>>

\* What may follow an escaped high half in place of an escaped low half:
\* nothing, a letter, the escape of a letter, another escape.
NoLowHalf == {<<>>, <<"x">>, <<"\\","u","0","0","4","1">>, <<"\\","n">>,
              <<"\\","u","D","8","3","D">>}

\* A quoted string of an escaped high half and no low half after it.
LoneHighText(q, hi, rest) == <<q, "\\", "u">> \o hi \o rest \o <<q>>

\* A quoted string of an escaped low half alone.
LoneLowText(q, lo) == <<q, "\\", "u">> \o lo \o <<q>>

\* The strings of escaped surrogates.
SurrogateTexts ==
  {PairText(q, hi, lo) : q \in Quotes, hi \in HighHalves, lo \in LowHalves}
  \cup {LoneHighText(q, <<"d","8","3","D">>, rest) : q \in Quotes, rest \in NoLowHalf}
  \cup {LoneLowText(q, lo) : q \in Quotes, lo \in LowHalves}

\* the escape of a control character in a string: a: "\u0001"
DocControlString ==
  <<"a",":"," ","\"","\\","u","0","0","0","1","\"">>

\* the escape of a control character in a key: {"\u001f": [true, "q\"\\"]}
DocControlKey ==
  <<"{","\"","\\","u","0","0","1","f","\"",":"," ","[","t","r","u","e",","," ",
    "\"","q","\\","\"","\\","\\","\"","]","}">>

\* The white space between a bare key and its ':' in the texts below.
KeyGaps == {<<>>, <<" ">>, <<" ", " ">>, <<"\t">>}

\* a bare key, inline white space, and its value: key<gap>: 1
KeyGapText(gap) == <<"k","e","y">> \o gap \o <<":"," ","1">>

\* Further documents of the corpus.
CorpusMore ==
  {DocTabFirstLine, DocTabAfterComma, DocTabOnly, DocCRLFOnly, DocNulLine,
   DocThreeSpaces, DocLoneContinuation, DocTruncated, DocUnclosedThenInvalid,
   DocBadContinuation, DocOverlong, DocSurrogateBytes, DocAboveMax, DocTwoBytes,
   DocBOMInString, DocBOMTwice, DocBOMThenJunk, DocBOMWord,
   DocControlString, DocControlKey}

\* Texts of one complete value: a number, an array, a braced object, a
\* quoted string.
ClosedValues ==
  {<<"1">>, <<"[","1","]">>, <<"{","a",":"," ","1","}">>, <<"\"","s","\"">>}

\* What may stand after the top-level value: a space, a line break, a
\* comment with its line break.
Gaps == {<<" ">>, <<"\n">>, <<" ","#","c","\n">>}

\* What may not: a second value, a bracket no value has opened, a comma.
Junk == {<<"2">>, <<"}">>, <<"x">>, <<",">>}

\* A complete value, a gap, and something more.
TrailingTexts == {c \o g \o j : c \in ClosedValues, g \in Gaps, j \in Junk}

\* The longest generated text of spaces, line breaks and '#'.
MaxBlank == 2

\* Every text of at most MaxBlank spaces, line breaks and '#': white space,
\* blank lines and comments only.
BlankTexts == UNION {[1..n -> {" ", "\n", "#"}] : n \in 0..MaxBlank}

\* A generated document is an object written from a tree: a leaf is a number,
\* a node is the list of its pairs in source order.
Leaf(n) == [t |-> "leaf", v |-> Number([m |-> n, e |-> 0])]

Node(pairs) == [t |-> "node", pairs |-> pairs]

\* The tree of a document of the corpus: none.
NoAst == [t |-> "none"]

\* The most pairs of a generated top-level object.
MaxPairs == 2

KeyNames == {<<"a">>, <<"b">>}

PairValues ==
  {Leaf(1),
   Node(<<[key |-> <<"b">>, val |-> Leaf(1)], [key |-> <<"b">>, val |-> Leaf(2)]>>)}

Asts ==
  {Node(ps) : ps \in UNION {[1..n -> [key : KeyNames, val : PairValues]] : n \in 1..MaxPairs}}

\* The pairs in the indented form, one "key: value" per line, a nested object
\* as a block one level deeper.
RECURSIVE RenderIndented(_, _)
RenderIndented(pairs, level) ==
  JoinSep([i \in 1..Len(pairs) |->
             WriteIndent(level, DefaultIndentWidth) \o pairs[i].key \o <<":">>
             \o (IF pairs[i].val.t = "leaf"
                 THEN <<" ">> \o Decimal(pairs[i].val.v.v.m)
                 ELSE <<"\n">> \o RenderIndented(pairs[i].val.pairs, level + 1))],
          <<"\n">>, Len(pairs))

\* The pairs in the inline-braced form.
RECURSIVE RenderBraced(_)
RenderBraced(pairs) ==
  <<"{">> \o JoinSep([i \in 1..Len(pairs) |->
                       pairs[i].key \o <<":", " ">>
                       \o (IF pairs[i].val.t = "leaf"
                           THEN Decimal(pairs[i].val.v.v.m)
                           ELSE RenderBraced(pairs[i].val.pairs))],
                     <<",", " ">>, Len(pairs))
          \o <<"}">>

Inputs ==
  {[text |-> d, ast |-> NoAst] : d \in Corpus \cup CorpusMore \cup BlankTexts \cup TrailingTexts
                                       \cup SurrogateTexts
                                       \cup {KeyGapText(g) : g \in KeyGaps}}
  \cup {[text |-> RenderIndented(a.pairs, 0), ast |-> a] : a \in Asts}
  \cup {[text |-> RenderBraced(a.pairs), ast |-> a] : a \in Asts}

---------------------------------------------------------------------------
(* The state machine: a caller of the library.  It constructs a Parser on   *)
(* src and calls Parse on that instance, writes the value with ToString and *)
(* parses the text again; and it does the same through ParseLossless and    *)
(* ToStringLossless.                                                        *)

\* The most Parse calls made on the one Parser instance.
MaxCalls == 2

\* What the caller's `out` holds before the first call: a value of the
\* caller's own, which no document of Inputs parses to.
CallerValues == {String(<<"o", "l", "d">>)}

NotTaken == [done |-> FALSE]

Init ==
  /\ \E d \in Inputs : src = d.text /\ ast = d.ast
  /\ hashDesc \in BOOLEAN
  /\ parser = NewParser(src)
  /\ out \in CallerValues
  /\ hist = <<>>
  /\ outPrev = out
  /\ text = NotTaken
  /\ back = NotTaken
  /\ text2 = NotTaken
  /\ lout = NewLosslessValue
  /\ lret = "none"
  /\ loutPrev = lout
  /\ ltext = NotTaken
  /\ lback = NotTaken
  /\ lerr = NoError
  /\ json = NotTaken
  /\ inst = <<>>

\* A call of the caller has not returned: the caller makes no other.
Stuck == (Len(hist) > 0 /\ hist[Len(hist)].code = Hangs) \/ lret = Hangs

\* parser.Parse(out, &error) on the one instance.
ParseCall ==
  /\ ~Stuck
  /\ Len(hist) < MaxCalls
  /\ ~text.done
  /\ LET r == ParserParse(parser, out, NoError)
     IN /\ parser' = r.p
        /\ out' = r.out
        /\ hist' = Append(hist, [code |-> r.code, out |-> r.out, error |-> r.error])
  /\ outPrev' = out
  /\ UNCHANGED <<src, ast, hashDesc, text, back, text2, lout, lret, loutPrev, ltext, lback, lerr, json, inst>>

\* text = ToString(out), after a Parse that returned OK.
ToStringCall ==
  /\ ~Stuck
  /\ Len(hist) > 0
  /\ hist[Len(hist)].code = OK
  /\ ~text.done
  /\ text' = [done |-> TRUE, s |-> ToStringPlain(out, DefaultOptions)]
  /\ UNCHANGED <<src, ast, hashDesc, parser, out, hist, outPrev, back, text2,
                 lout, lret, loutPrev, ltext, lback, lerr, json, inst>>

\* Parse(text, back, &error): the free function, a new Parser and a new Value.
ParseBackCall ==
  /\ ~Stuck
  /\ text.done
  /\ ~back.done
  /\ LET r == Parse(text.s, Null, NoError)
     IN back' = [done |-> TRUE, code |-> r.code, out |-> r.out]
  /\ UNCHANGED <<src, ast, hashDesc, parser, out, hist, outPrev, text, text2,
                 lout, lret, loutPrev, ltext, lback, lerr, json, inst>>

\* text2 = ToString(back), after the second parse returned OK.
ToStringBackCall ==
  /\ ~Stuck
  /\ back.done
  /\ back.code = OK
  /\ ~text2.done
  /\ text2' = [done |-> TRUE, s |-> ToStringPlain(back.out, DefaultOptions)]
  /\ UNCHANGED <<src, ast, hashDesc, parser, out, hist, outPrev, text, back,
                 lout, lret, loutPrev, ltext, lback, lerr, json, inst>>

\* ParseLossless(src, lout, &error).
ParseLosslessCall ==
  /\ ~Stuck
  /\ lret = "none"
  /\ LET r == ParseLossless(src, lout, NoError)
     IN /\ lout' = r.out
        /\ lret' = r.code
        /\ lerr' = r.error
  /\ loutPrev' = lout
  /\ UNCHANGED <<src, ast, hashDesc, parser, out, hist, outPrev, text, back, text2,
                 ltext, lback, json, inst>>

\* ltext = ToStringLossless(lout), after ParseLossless returned OK.
ToStringLosslessCall ==
  /\ ~Stuck
  /\ lret = OK
  /\ ~ltext.done
  /\ ltext' = [done |-> TRUE, s |-> ToStringLossless(lout, DefaultOptions)]
  /\ UNCHANGED <<src, ast, hashDesc, parser, out, hist, outPrev, text, back, text2,
                 lout, lret, loutPrev, lback, lerr, json, inst>>

\* ParseLossless(ltext, lback, &error) into a new LosslessValue.
ParseLosslessBackCall ==
  /\ ~Stuck
  /\ ltext.done
  /\ ~lback.done
  /\ LET r == ParseLossless(ltext.s, NewLosslessValue, NoError)
     IN lback' = [done |-> TRUE, code |-> r.code, out |-> r.out]
  /\ UNCHANGED <<src, ast, hashDesc, parser, out, hist, outPrev, text, back, text2,
                 lout, lret, loutPrev, ltext, lerr, json, inst>>

\* json = ToJsonString(out), after a Parse that returned OK.
ToJsonStringCall ==
  /\ ~Stuck
  /\ Len(hist) > 0
  /\ hist[Len(hist)].code = OK
  /\ ~json.done
  /\ json' = [done |-> TRUE, of |-> out, s |-> ToJsonString(out)]
  /\ UNCHANGED <<src, ast, hashDesc, parser, out, hist, outPrev, text, back, text2,
                 lout, lret, loutPrev, ltext, lback, lerr, inst>>

Next ==
  \/ ParseCall
  \/ ToStringCall
  \/ ParseBackCall
  \/ ToStringBackCall
  \/ ParseLosslessCall
  \/ ToStringLosslessCall
  \/ ParseLosslessBackCall
  \/ ToJsonStringCall

Spec == Init /\ [][Next]_vars

---------------------------------------------------------------------------
(* Two threads, each with a Parser of its own on a text of its own.  A     *)
(* Parse is two steps here, so that one thread may run between the steps   *)
(* of the other: up to the first character of the top-level value, and     *)
(* from there to the return.                                               *)

\* The texts the two instances are constructed on.
TwoInputs ==
  {DocNested, DocThreeSpaces, DocSiblingBadIndent, DocBOM, DocTrailing, DocTab}

Threads == {1, 2}

\* A faulty variant of Members, kept for comparison: mIndentUnit is one
\* static field, which holds what either instance has written to it.
MembersStaticUnit(all, i) ==
  [all[i].p EXCEPT !.mIndentUnit =
     IF all[3 - i].p.mIndentUnit # 0 THEN all[3 - i].p.mIndentUnit ELSE @]

\* The members a step of thread i works on: mPos, mLine, mCol, mIndentUnit,
\* mIndentStack and mError are non-static members of its own instance.
Members(all, i) ==
  all[i].p

\* Parser p(src); Value out; in thread i, nothing run yet.
NewThread(s) ==
  [src |-> s, p |-> NewParser(s), stage |-> "new", out |-> Null, code |-> OK]

\* The thread after a step that has left the instance p, the Parse not yet
\* returned.
ThreadAt(th, q) == [th EXCEPT !.p = q, !.stage = "scanned"]

\* The thread after Parse has returned r.
ThreadDone(th, r) ==
  [th EXCEPT !.p = r.p, !.stage = "done", !.out = r.out, !.code = r.code]

\* The thread after the first part of its Parse, which has come to sc.
ThreadScanned(th, sc) ==
  IF sc.ok THEN ThreadAt(th, sc.p) ELSE ThreadDone(th, ParseAfterScan(sc, th.out))

InitTwo ==
  /\ inst \in [Threads -> {NewThread(d) : d \in TwoInputs}]
  /\ src = <<>>
  /\ ast = NoAst
  /\ hashDesc = FALSE
  /\ parser = NewParser(src)
  /\ out = Null
  /\ hist = <<>>
  /\ outPrev = out
  /\ text = NotTaken
  /\ back = NotTaken
  /\ text2 = NotTaken
  /\ lout = NewLosslessValue
  /\ lret = "none"
  /\ loutPrev = lout
  /\ ltext = NotTaken
  /\ lback = NotTaken
  /\ lerr = NoError
  /\ json = NotTaken

\* Thread i runs its Parse up to the first character of the top-level value.
ScanStep(i) ==
  /\ inst[i].stage = "new"
  /\ inst' = [inst EXCEPT ![i] = ThreadScanned(@, ParseScan(Members(inst, i)))]
  /\ UNCHANGED <<src, ast, hashDesc, parser, out, hist, outPrev, text, back, text2,
                 lout, lret, loutPrev, ltext, lback, lerr, json>>

\* Thread i runs its Parse from there to the return.
ValueStep(i) ==
  /\ inst[i].stage = "scanned"
  /\ inst' = [inst EXCEPT ![i] = ThreadDone(@, ParseDocument(Members(inst, i), @.out))]
  /\ UNCHANGED <<src, ast, hashDesc, parser, out, hist, outPrev, text, back, text2,
                 lout, lret, loutPrev, ltext, lback, lerr, json>>

NextTwo ==
  \/ \E i \in Threads : ScanStep(i)
  \/ \E i \in Threads : ValueStep(i)

SpecTwo == InitTwo /\ [][NextTwo]_vars

---------------------------------------------------------------------------
(* The line reader, one iteration of its loop per step.  A text of lines   *)
(* is read as the parsers read it: NextContentLine (NextContentLineLossless *)
(* in the lossless parser) goes round its while loop once per step, and    *)
(* after a content line the caller reads something of the line before it   *)
(* asks for the next one.                                                  *)

\* The lines of a text: at most MaxLines of them.
MaxLines == 3

\* The leading spaces of a line, and what follows them: a key, nothing, a
\* comment.
LineIndents == {0, 1, 2, 3}

LineBodies == {<<"k", ":">>, <<>>, <<"#">>}

Lines == {Spaces(n) \o b : n \in LineIndents, b \in LineBodies}

\* The texts of one to MaxLines lines, a line break between two lines.
LineTexts ==
  {JoinSep(f, <<"\n">>, Len(f)) : f \in UNION {[1..n -> Lines] : n \in 1..MaxLines}}

\* One iteration of the while loop of NextContentLine (lossless = FALSE) and
\* of NextContentLineLossless (TRUE): [p, code, step, indentCols], step what
\* the iteration did: "end" (the loop condition failed, or SkipToEOL came to
\* the end), "skip" (the rest of a line skipped), "error" (ReadLineIndent or
\* ApplyIndentLevel failed), "blank" (a blank or comment line read) and
\* "content" (a content line found: hasLine = true).
NextLineOnce(p, lossless) ==
  IF EndOfFile(p) THEN [p |-> p, code |-> OK, step |-> "end", indentCols |-> 0]
  ELSE IF p.mCol # 1
  THEN With(SkipToEOL(p), LAMBDA q :
         [p |-> q, code |-> OK, step |-> IF EndOfFile(q) THEN "end" ELSE "skip",
          indentCols |-> 0])
  ELSE With(ReadLineIndent(p), LAMBDA r :
         IF r.code # OK
         THEN [p |-> r.p, code |-> r.code, step |-> "error", indentCols |-> r.indentCols]
         ELSE IF ~r.hasContent
         THEN [p |-> IF lossless
                     THEN [r.p EXCEPT !.mPendingComments =
                             Append(@, CommentOfLine(r.p, p.mPos, r.indentCols))]
                     ELSE r.p,
               code |-> OK, step |-> "blank", indentCols |-> r.indentCols]
         ELSE With(ApplyIndentLevel(r.p, r.indentCols), LAMBDA a :
                [p |-> a.p, code |-> a.code,
                 step |-> IF a.code = OK THEN "content" ELSE "error",
                 indentCols |-> r.indentCols]))

\* The reader before its first step.  LosslessParser::Parse asks for the
\* first content line at offset 0 ("start"); Parser::Parse skips white
\* space and comments and reads the top-level value where it stops
\* ("first"): the line reader has not read that line.
NewReader(s, lossless) ==
  IF lossless
  THEN [p |-> NewParser(s), prev |-> NewParser(s), lossless |-> TRUE,
        code |-> OK, step |-> "start", indentCols |-> 0]
  ELSE With(ParseScan(NewParser(s)).p, LAMBDA q :
         [p |-> q, prev |-> NewParser(s), lossless |-> FALSE, code |-> OK,
          step |-> IF EndOfFile(q) THEN "end" ELSE "first", indentCols |-> 0])

\* The reader after an iteration that came to it.
ReaderAfter(rd, it) ==
  [rd EXCEPT !.p = it.p, !.prev = rd.p, !.code = it.code, !.step = it.step,
             !.indentCols = it.indentCols]

InitLines ==
  /\ inst \in {NewReader(s, l) : s \in LineTexts, l \in BOOLEAN}
  /\ src = <<>>
  /\ ast = NoAst
  /\ hashDesc = FALSE
  /\ parser = NewParser(src)
  /\ out = Null
  /\ hist = <<>>
  /\ outPrev = out
  /\ text = NotTaken
  /\ back = NotTaken
  /\ text2 = NotTaken
  /\ lout = NewLosslessValue
  /\ lret = "none"
  /\ loutPrev = lout
  /\ ltext = NotTaken
  /\ lback = NotTaken
  /\ lerr = NoError
  /\ json = NotTaken

\* The loop of the line reader goes round once.
ReadLineStep ==
  /\ inst.step \in {"start", "skip", "blank", "token"}
  /\ inst' = ReaderAfter(inst, NextLineOnce(inst.p, inst.lossless))
  /\ UNCHANGED <<src, ast, hashDesc, parser, out, hist, outPrev, text, back, text2,
                 lout, lret, loutPrev, ltext, lback, lerr, json>>

\* The caller reads the first character of the content line it was given.
\* The lossless parser has taken the pending comments for the node it reads.
ReadTokenStep ==
  /\ inst.step \in {"content", "first"}
  /\ inst' = [inst EXCEPT !.p = Get(IF inst.lossless
                                    THEN [inst.p EXCEPT !.mPendingComments = <<>>]
                                    ELSE inst.p),
                          !.prev = inst.p, !.step = "token"]
  /\ UNCHANGED <<src, ast, hashDesc, parser, out, hist, outPrev, text, back, text2,
                 lout, lret, loutPrev, ltext, lback, lerr, json>>

NextLines ==
  \/ ReadLineStep
  \/ ReadTokenStep

SpecLines == InitLines /\ [][NextLines]_vars

---------------------------------------------------------------------------
(* Block documents: keys on lines of their own, values on the line of the  *)
(* key or in a block under it; quoted strings, comment lines and arrays.   *)
(* Each text is parsed by both parsers and the parsed value is written.    *)

\* a pair, a deeper line, a line at the first column: a: 1\n  b: 2\nc: 3
DocDeeperSibling ==
  <<"a",":"," ","1","\n"," "," ","b",":"," ","2","\n","c",":"," ","3">>

\* the same one level down: x:\n  a: 1\n    b: 2
DocDeeperSiblingNested ==
  <<"x",":","\n"," "," ","a",":"," ","1","\n"," "," "," "," ","b",":"," ","2">>

\* What may stand between the ':' of a key and the end of its line.
AfterColon == {<<>>, <<" ", "#", " ", "c">>}

\* What may follow the line of a key: nothing, a line break and the end,
\* or a line break and the line `b: 1` after 0, 2 or 4 spaces.
AfterKeyLine ==
  {<<>>, <<"\n">>} \cup {<<"\n">> \o Spaces(f) \o <<"b", ":", " ", "1">> : f \in {0, 2, 4}}

\* The key `a` with nothing but c after its ':', at the first column (n = 0)
\* or in the block of `x` (n = 2), and what follows its line.
KeyLineText(n, c, f) ==
  (IF n = 0 THEN <<>> ELSE <<"x", ":", "\n">> \o Spaces(n)) \o <<"a", ":">> \o c \o f

KeyLineTexts ==
  {KeyLineText(n, c, f) : n \in {0, 2}, c \in AfterColon, f \in AfterKeyLine}

\* The texts of block documents.
\* Where the line `d: 2` may start after the blocks of a and b.
DedentIndents == {0, 2, 4}

\* a holds a block with b at indent 2, b holds a block with c at indent 4,
\* and the line `d: 2` follows at indent i:  a:\n  b:\n    c: 1\n<i>d: 2
DedentText(i) ==
  <<"a", ":", "\n">> \o Spaces(2) \o <<"b", ":", "\n">>
    \o Spaces(4) \o <<"c", ":", " ", "1", "\n">> \o Spaces(i) \o <<"d", ":", " ", "2">>

DedentTexts == {DedentText(i) : i \in DedentIndents}

\* The characters tried after a backslash in a quoted string.
EscapeChars == {"\"", "\\", "n", "r", "t", "'", "x", "b", "/", "0"}

\* What may stand between the quotes: a backslash and a character, the
\* escape of U+0041, a raw line break.
QuotedInsides ==
  {<<"\\", e>> : e \in EscapeChars}
    \cup {<<"\\", "u", "0", "0", "4", "1">>, <<"a", "\n", "b">>, <<"a", "\r", "b">>}

\* The string with x between two quotes q, and the same without its closing
\* quote.
QuotedText(q, x) == <<q>> \o x \o <<q>>

OpenQuotedText(q, x) == <<q>> \o x

QuotedTexts ==
  {QuotedText(q, x) : q \in Quotes, x \in QuotedInsides}
    \cup {OpenQuotedText(q, x) : q \in Quotes, x \in {<<"a">>, <<"a", "\\">>}}

\* The comment line `# c` after n spaces, with its line break.
CommentLine(n) == Spaces(n) \o <<"#", " ", "c", "\n">>

\* A comment line between two keys: a: 1\n# c\nb: 2
DocCommentBeforeKey == <<"a", ":", " ", "1", "\n">> \o CommentLine(0) \o <<"b", ":", " ", "2">>

\* between two elements of a multiline array: [\n  1\n  # c\n  2\n]
DocCommentBeforeElement ==
  <<"[", "\n", " ", " ", "1", "\n">> \o CommentLine(2) \o <<" ", " ", "2", "\n", "]">>

\* between two entries of an inline object: {a: 1,\n# c\nb: 2}
DocCommentInInlineObject ==
  <<"{", "a", ":", " ", "1", ",", "\n">> \o CommentLine(0) \o <<"b", ":", " ", "2", "}">>

\* before the first key of a block: a:\n  # c\n  b: 1
DocCommentBeforeBlock ==
  <<"a", ":", "\n">> \o CommentLine(2) \o <<" ", " ", "b", ":", " ", "1">>

\* after the last content line: a: 1\n# c\n
DocCommentAtEnd == <<"a", ":", " ", "1", "\n">> \o CommentLine(0)

CommentTexts ==
  {DocCommentBeforeKey, DocCommentBeforeElement, DocCommentInInlineObject,
   DocCommentBeforeBlock, DocCommentAtEnd}

\* The inline array of the numbers 1..n: [1, 2, 3]
NumberArrayText(n) ==
  <<"[">> \o JoinSep([i \in 1..n |-> <<<<"1">>, <<"2">>, <<"3">>, <<"4">>>>[i]], <<",", " ">>, n)
    \o <<"]">>

\* The string of n letters a between double quotes.
RECURSIVE Letters(_)
Letters(n) == IF n = 0 THEN <<>> ELSE <<"a">> \o Letters(n - 1)

\* Arrays at the root, in an array, under a key, and in an object that is an
\* element of an array; arrays of strings around the length limit.
ArrayTexts ==
  {NumberArrayText(n) : n \in 1..4}
    \cup {<<"[">> \o NumberArrayText(n) \o <<"]">> : n \in {1, 4}}
    \cup {<<"a", ":", " ">> \o NumberArrayText(n) : n \in {3, 4}}
    \cup {<<"[", "{", "a", ":", " ">> \o NumberArrayText(n) \o <<"}", "]">> : n \in {3, 4}}
    \cup {<<"[", "\"">> \o Letters(n) \o <<"\"", "]">> : n \in {MaxSimpleString, MaxSimpleString + 1}}
    \cup {<<"[", "n", "u", "l", "l", ",", " ", "t", "r", "u", "e", ",", " ", "\"", "s", "\"", "]">>,
          <<"[", "\"", "a", "\\", "n", "b", "\"", "]">>}

BlockTexts ==
  {DocDeeperSibling, DocDeeperSiblingNested} \cup KeyLineTexts \cup DedentTexts
    \cup QuotedTexts \cup CommentTexts \cup ArrayTexts

InitBlocks ==
  /\ src \in BlockTexts
  /\ ast = NoAst
  /\ hashDesc = FALSE
  /\ parser = NewParser(src)
  /\ out \in CallerValues
  /\ hist = <<>>
  /\ outPrev = out
  /\ text = NotTaken
  /\ back = NotTaken
  /\ text2 = NotTaken
  /\ lout = NewLosslessValue
  /\ lret = "none"
  /\ loutPrev = lout
  /\ ltext = NotTaken
  /\ lback = NotTaken
  /\ lerr = NoError
  /\ json = NotTaken
  /\ inst = <<>>

NextBlocks ==
  \/ ParseCall
  \/ ParseLosslessCall
  \/ ToStringCall

SpecBlocks == InitBlocks /\ [][NextBlocks]_vars

----------------------------------------------------------------------------
(* Two ToStringLossless calls on one tree.  The tree `lout` is shared; each *)
(* call goes through the items of the root object of WriteLosslessValue in  *)
(* steps, so that the write that clears the leadingComments of a child and  *)
(* the write that puts them back are separate from the reads between them.  *)
(* The reads and writes of one vector are taken whole: the interleavings    *)
(* below are among the outcomes of the unsynchronised accesses.             *)

\* x: 1\n# c\na:\n  b: 1
DocCommentedBlock ==
  <<"x", ":", " ", "1", "\n">> \o CommentLine(0) \o <<"a", ":", "\n", " ", " ", "b", ":", " ", "1">>

\* a:\n  b: 1\n# c\nd:\n  e: 2
DocTwoBlocks ==
  <<"a", ":", "\n", " ", " ", "b", ":", " ", "1", "\n">> \o CommentLine(0)
    \o <<"d", ":", "\n", " ", " ", "e", ":", " ", "2">>

\* x: 1\n# c\na: [\n  1\n]
DocCommentedArray ==
  <<"x", ":", " ", "1", "\n">> \o CommentLine(0) \o <<"a", ":", " ", "[", "\n", " ", " ", "1", "\n", "]">>

\* # c\n1
DocCommentedScalar == CommentLine(0) \o <<"1">>

SharedTexts == {DocCommentedBlock, DocTwoBlocks, DocCommentedArray, DocCommentedScalar}

\* A call before its first step: [pc, index, savedComments, out].
NewCall == [pc |-> "begin", index |-> 1, savedComments |-> <<>>, out |-> <<>>]

InitShared ==
  /\ src \in SharedTexts
  /\ lout = ParseLossless(src, NewLosslessValue, NoError).out
  /\ loutPrev = lout
  /\ inst = [i \in Threads |-> NewCall]
  /\ ast = NoAst
  /\ hashDesc = FALSE
  /\ parser = NewParser(src)
  /\ out = Null
  /\ hist = <<>>
  /\ outPrev = out
  /\ text = NotTaken
  /\ back = NotTaken
  /\ text2 = NotTaken
  /\ lret = OK
  /\ ltext = NotTaken
  /\ lback = NotTaken
  /\ lerr = NoError
  /\ json = NotTaken

\* The position in objectItems of the item that call c is at.
ItemIndex(c) == OrderedLosslessItems(lout.objectItems, DefaultOptions.sortObjectKeys)[c.index]

\* The entry of WriteLosslessValue for the root: the leading comments, and
\* everything else when the root is not an object with items.
WriteRootStep(i) ==
  /\ inst[i].pc = "begin"
  /\ inst' = [inst EXCEPT ![i] =
       IF lout.value.t = "obj" /\ Len(lout.objectItems) > 0
       THEN [@ EXCEPT !.pc = "key", !.out = WriteCommentLines(lout.leadingComments, DefaultOptions)]
       ELSE [@ EXCEPT !.pc = "done", !.out = ToStringLossless(lout, DefaultOptions)]]
  /\ UNCHANGED <<src, ast, hashDesc, parser, out, hist, outPrev, text, back, text2,
                 lout, lret, loutPrev, ltext, lback, lerr, json>>

\* The end of an iteration of the loop over the items: the inline comment
\* and the line break before the next item.
AfterItem(c, child) ==
  [c EXCEPT !.out = @ \o writeInlineComment(trimTrailingSpaces(child.inlineComment))
                      \o (IF c.index < Len(lout.objectItems) THEN <<"\n">> ELSE <<>>),
            !.index = @ + 1,
            !.pc = IF c.index < Len(lout.objectItems) THEN "key" ELSE "done"]

\* The comments of the item, its key and ':'; the value too when it is a
\* scalar.
WriteKeyStep(i) ==
  /\ inst[i].pc = "key"
  /\ LET child == lout.objectItems[ItemIndex(inst[i])].item
         head == inst[i].out \o WriteCommentLines(child.leadingComments, DefaultOptions)
                   \o WriteIndent(0, DefaultOptions.indentWidth)
                   \o lout.objectItems[ItemIndex(inst[i])].key \o <<":">>
     IN inst' = [inst EXCEPT ![i] =
          IF child.value.t \in {"obj", "arr"}
          THEN [@ EXCEPT !.pc = "save", !.out = head \o <<"\n">>]
          ELSE AfterItem([@ EXCEPT !.out = head \o <<" ">>
                            \o WriteValue(child.value, 0, DefaultOptions, InObject)], child)]
  /\ UNCHANGED <<src, ast, hashDesc, parser, out, hist, outPrev, text, back, text2,
                 lout, lret, loutPrev, ltext, lback, lerr, json>>

\* savedComments = child.leadingComments, then the clear() through the
\* const_cast.
ClearCommentsStep(i) ==
  /\ inst[i].pc = "save"
  /\ inst' = [inst EXCEPT ![i] =
       [@ EXCEPT !.pc = "child",
                 !.savedComments = lout.objectItems[ItemIndex(inst[i])].item.leadingComments]]
  /\ lout' = [lout EXCEPT !.objectItems[ItemIndex(inst[i])].item.leadingComments = <<>>]
  /\ UNCHANGED <<src, ast, hashDesc, parser, out, hist, outPrev, text, back, text2,
                 lret, loutPrev, ltext, lback, lerr, json>>

\* The recursive WriteLosslessValue on the child as it is in the tree now.
WriteChildStep(i) ==
  /\ inst[i].pc = "child"
  /\ inst' = [inst EXCEPT ![i] =
       [@ EXCEPT !.pc = "restore",
                 !.out = @ \o WriteLosslessValue(lout.objectItems[ItemIndex(inst[i])].item, 1,
                                                 DefaultOptions, InObject)]]
  /\ UNCHANGED <<src, ast, hashDesc, parser, out, hist, outPrev, text, back, text2,
                 lout, lret, loutPrev, ltext, lback, lerr, json>>

\* child.leadingComments = std::move(savedComments), and the end of the
\* iteration.
RestoreCommentsStep(i) ==
  /\ inst[i].pc = "restore"
  /\ inst' = [inst EXCEPT ![i] = AfterItem(@, lout.objectItems[ItemIndex(inst[i])].item)]
  /\ lout' = [lout EXCEPT !.objectItems[ItemIndex(inst[i])].item.leadingComments =
                            inst[i].savedComments]
  /\ UNCHANGED <<src, ast, hashDesc, parser, out, hist, outPrev, text, back, text2,
                 lret, loutPrev, ltext, lback, lerr, json>>

NextShared ==
  \/ \E i \in Threads : WriteRootStep(i)
  \/ \E i \in Threads : WriteKeyStep(i)
  \/ \E i \in Threads : ClearCommentsStep(i)
  \/ \E i \in Threads : WriteChildStep(i)
  \/ \E i \in Threads : RestoreCommentsStep(i)

SpecShared == InitShared /\ [][NextShared]_vars

---------------------------------------------------------------------------
(* Properties.  A generated document comes with the tree `ast` it was      *)
(* rendered from: the pairs of every object in the order of the text, a    *)
(* key possibly more than once.                                            *)

\* The Value a tree stands for when a later occurrence of a key replaces an
\* earlier one.
RECURSIVE LastWins(_)
RECURSIVE LastWinsPairs(_, _)
LastWins(a) ==
  IF a.t = "leaf" THEN a.v ELSE Object(LastWinsPairs(a.pairs, Len(a.pairs)))

LastWinsPairs(pairs, n) ==
  IF n = 0 THEN EmptyObject
  ELSE (pairs[n].key :> LastWins(pairs[n].val)) @@ LastWinsPairs(pairs, n - 1)

\* A tree in which some object has a key more than once.
RECURSIVE HasDuplicate(_)
HasDuplicate(a) ==
  /\ a.t = "node"
  /\ \/ \E i, j \in 1..Len(a.pairs) : i < j /\ a.pairs[i].key = a.pairs[j].key
     \/ \E i \in 1..Len(a.pairs) : HasDuplicate(a.pairs[i].val)

\* The tree of key occurrences a LosslessValue holds in its objectItems.
RECURSIVE Occurrences(_)
Occurrences(lv) ==
  IF lv.value.t = "obj"
  THEN Node([i \in 1..Len(lv.objectItems) |->
               [key |-> lv.objectItems[i].key,
                val |-> Occurrences(lv.objectItems[i].item)]])
  ELSE [t |-> "leaf", v |-> lv.value]

\* The first Parse of the instance has returned.
Parsed == Len(hist) >= 1

\* C1: a key that occurs more than once in an object maps to the value of its
\* last occurrence, in the Object returned by Parse and in the value of the
\* tree returned by ParseLossless.
C1_LastOccurrenceWins ==
  ast # NoAst =>
    /\ (Parsed /\ hist[1].code = OK) => hist[1].out = LastWins(ast)
    /\ lret = OK => lout.value = LastWins(ast)

\* C2: in a document ParseLossless accepts, the objectItems of every object
\* node hold one entry per key occurrence, in the order of the text, every
\* occurrence of a repeated key included.
C2_OneItemPerOccurrence ==
  /\ (lret # "none" /\ ast # NoAst) => (lret = OK /\ Occurrences(lout) = ast)
  /\ (lret # "none" /\ src = DocDuplicateKey) =>
       /\ lret = OK
       /\ Len(lout.objectItems) = 2
       /\ lout.objectItems[1].key = <<"a">>
       /\ lout.objectItems[1].item.value = Number([m |-> 1, e |-> 0])
       /\ lout.objectItems[2].key = <<"a">>
       /\ lout.objectItems[2].item.value = Number([m |-> 2, e |-> 0])

\* A generated document with a repeated key has been read by ParseLossless,
\* and objectItems hold both occurrences.
C2_Witness ==
  /\ lret = OK
  /\ HasDuplicate(ast)
  /\ Occurrences(lout) = ast

\* C3: the text ToString writes for the value of an accepted document is
\* accepted by Parse, and the value read back equals the first.
C3_PlainRoundTrip ==
  (Len(hist) = 1 /\ back.done) => (back.code = OK /\ back.out = out)

\* The comment texts a LosslessValue holds: on itself and on the items below
\* it.
RECURSIVE CommentsOf(_)
CommentsOf(lv) ==
  {lv.leadingComments[i].text : i \in 1..Len(lv.leadingComments)}
  \cup {lv.inlineComment}
  \cup {lv.trailingComments[i].text : i \in 1..Len(lv.trailingComments)}
  \cup UNION {CommentsOf(lv.arrayItems[i]) : i \in 1..Len(lv.arrayItems)}
  \cup UNION {CommentsOf(lv.objectItems[i].item) : i \in 1..Len(lv.objectItems)}

\* t occurs in s as a run of consecutive characters.
Occurs(t, s) ==
  \E i \in 0..(Len(s) - Len(t)) : \A j \in 1..Len(t) : s[i + j] = t[j]

\* C4: the text ToStringLossless writes for the tree of an accepted document
\* is accepted by ParseLossless, the tree read back equals the first (the
\* tree holds no indentation width), and every comment of the first tree
\* stands in the text.
C4_LosslessRoundTrip ==
  /\ ltext.done => \A c \in CommentsOf(lout) : Occurs(c, ltext.s)
  /\ lback.done => (lback.code = OK /\ lback.out = lout)

\* C5: of a value Parse has produced, the text ToString writes is accepted by
\* Parse, and ToString writes the same text again for what is read back.
C5_WriterIdempotent ==
  /\ (Len(hist) = 1 /\ back.done) => back.code = OK
  /\ (Len(hist) = 1 /\ text2.done) => text2.s = text.s

\* C6: ParseLossless returns the ErrorCode Parse returns for the same text,
\* and when both return OK the value of the lossless root equals the Value
\* of Parse.
C6_LosslessAgreesWithPlain ==
  (Parsed /\ lret # "none") =>
    /\ lret = hist[1].code
    /\ lret = OK => lout.value = hist[1].out

\* C7: every Parse of one instance returns the ErrorCode, and on OK the
\* value, of the first Parse of the instance, which was new then.
C7_RepeatedParseSame ==
  \A i \in 1..Len(hist) :
    /\ hist[i].code = hist[1].code
    /\ hist[i].code = OK => hist[i].out = hist[1].out

\* C8: a Parse that returns a code other than OK leaves the caller's `out`
\* as it was before the call.
C8_OutKeptOnError ==
  (Parsed /\ hist[Len(hist)].code # OK) => out = outPrev

\* A document with a complete value and characters after it has been
\* rejected, the caller's `out` holding a string of its own.
C8_Witness ==
  /\ src = DocTrailing
  /\ Len(hist) = 1
  /\ hist[1].code = "UnexpectedChar"
  /\ outPrev = String(<<"o", "l", "d">>)
  /\ out = outPrev

\* C9: a ParseLossless that returns a code other than OK leaves every field
\* of the caller's LosslessValue as it was before the call.
C9_LosslessOutKeptOnError ==
  (lret # "none" /\ lret # OK) => lout = loutPrev

\* The places of a text where a line starts.
LineStarts(s) == {i \in 1..Len(s) : i = 1 \/ s[i - 1] = "\n"}

\* The spaces from place i on.
RECURSIVE SpacesFrom(_, _)
SpacesFrom(s, i) == IF i <= Len(s) /\ s[i] = " " THEN 1 + SpacesFrom(s, i + 1) ELSE 0

\* The line that starts at i holds content: something other than spaces, a
\* comment or the line break.
IsContentLine(s, i) ==
  /\ i + SpacesFrom(s, i) <= Len(s)
  /\ s[i + SpacesFrom(s, i)] \notin {"\n", "\r", "#"}

IndentedLines(s) == {i \in LineStarts(s) : IsContentLine(s, i) /\ SpacesFrom(s, i) > 0}

\* A text whose first indented content line fixes a unit that a later
\* indented content line is no multiple of.
HasOffUnitLine(s) ==
  /\ IndentedLines(s) # {}
  /\ LET first == CHOOSE i \in IndentedLines(s) : \A j \in IndentedLines(s) : i <= j
     IN \E j \in IndentedLines(s) : SpacesFrom(s, j) % SpacesFrom(s, first) # 0

\* C10: a document with a content line whose leading spaces are no multiple
\* of the unit the first indented content line has fixed is rejected with
\* InconsistentIndent, wherever the line stands.
C10_OffUnitLineRejected ==
  (Parsed /\ HasOffUnitLine(src)) => hist[1].code = "InconsistentIndent"

\* The white space a line starts with, from place i on, holds a tab.
RECURSIVE TabInIndent(_, _)
TabInIndent(s, i) ==
  /\ i <= Len(s)
  /\ \/ s[i] = "\t"
     \/ s[i] = " " /\ TabInIndent(s, i + 1)

\* C11: a document with a tab in the leading white space of a line, the
\* first line and a line after ',' included, is rejected with
\* InvalidIndentChar by Parse and by ParseLossless.
C11_TabIndentRejected ==
  (\E i \in LineStarts(src) : TabInIndent(src, i)) =>
    /\ Parsed => hist[1].code = "InvalidIndentChar"
    /\ lret # "none" => lret = "InvalidIndentChar"

\* From place i on the text holds white space, line breaks and comments
\* only; inComment tells that place i stands in a comment.
RECURSIVE BlankFrom(_, _, _)
BlankFrom(s, i, inComment) ==
  \/ i > Len(s)
  \/ /\ s[i] = "\n" \/ inComment \/ s[i] \in {" ", "\t", "\r", "#"}
     /\ BlankFrom(s, i + 1, s[i] # "\n" /\ (inComment \/ s[i] = "#"))

\* C12: a text of length zero, or of white space, blank lines and comment
\* lines only, is accepted by Parse with OK, the value Null.
C12_BlankIsNull ==
  (Parsed /\ BlankFrom(src, 1, FALSE)) => (hist[1].code = OK /\ hist[1].out = Null)

\* A text of a line break and a comment has been parsed to Null, in place
\* of the value the caller's `out` held.
C12_Witness ==
  /\ src = <<"\n", "#">>
  /\ Len(hist) = 1
  /\ hist[1].code = OK
  /\ outPrev # Null
  /\ out = Null

C14_EveryCallReturns ==
  /\ \A i \in 1..Len(hist) : hist[i].code \in ErrorCodes
  /\ lret = "none" \/ lret \in ErrorCodes

\* C15: of two instances on texts of their own, run in steps interleaved in
\* any order, each returns the code and the value that Parse returns for its
\* text when it runs alone.
C15_InstancesIndependent ==
  \A i \in DOMAIN inst :
    inst[i].stage = "done" =>
      /\ inst[i].code = Parse(inst[i].src, Null, NoError).code
      /\ inst[i].out = Parse(inst[i].src, Null, NoError).out

\* The second thread has run its whole Parse, fixing a unit of 3, between
\* the two steps of the first, whose text has a unit of 2.
C15_Witness ==
  /\ DOMAIN inst = Threads
  /\ inst[1].src = DocNested
  /\ inst[1].stage = "scanned"
  /\ inst[2].src = DocThreeSpaces
  /\ inst[2].stage = "done"
  /\ inst[2].code = OK
  /\ inst[2].p.mIndentUnit = 3
  /\ inst[1].p.mIndentUnit = 0

\* The byte at place i of s, 256 past the end.
ByteAt(s, i) == IF i <= Len(s) THEN ByteVal(s[i]) ELSE 256

\* The length of the well-formed UTF-8 sequence that starts at place i (the
\* byte ranges of the Unicode Standard), 0 when there is none.
WellFormedLength(s, i) ==
  LET b0 == ByteAt(s, i)
      b1 == ByteAt(s, i + 1)
      b2 == ByteAt(s, i + 2)
      b3 == ByteAt(s, i + 3)
      IsTail(b) == b \in 128..191
  IN IF b0 <= 127 THEN 1
     ELSE IF b0 \in 194..223 /\ IsTail(b1) THEN 2
     ELSE IF b0 = 224 /\ b1 \in 160..191 /\ IsTail(b2) THEN 3
     ELSE IF b0 \in (225..236) \cup {238, 239} /\ IsTail(b1) /\ IsTail(b2) THEN 3
     ELSE IF b0 = 237 /\ b1 \in 128..159 /\ IsTail(b2) THEN 3
     ELSE IF b0 = 240 /\ b1 \in 144..191 /\ IsTail(b2) /\ IsTail(b3) THEN 4
     ELSE IF b0 \in 241..243 /\ IsTail(b1) /\ IsTail(b2) /\ IsTail(b3) THEN 4
     ELSE IF b0 = 244 /\ b1 \in 128..143 /\ IsTail(b2) /\ IsTail(b3) THEN 4
     ELSE 0

\* The text is well-formed UTF-8 from place i on.
RECURSIVE WellFormedFrom(_, _)
WellFormedFrom(s, i) ==
  \/ i > Len(s)
  \/ /\ WellFormedLength(s, i) > 0
     /\ WellFormedFrom(s, i + WellFormedLength(s, i))

\* C16: a text that is not well-formed UTF-8 is rejected with InvalidUtf8
\* by Parse and by ParseLossless, whatever the grammar makes of the part
\* before the bad sequence; a continuation byte as the first byte is
\* reported at line 1, column 1.
C16_InvalidUtf8First ==
  ~WellFormedFrom(src, 1) =>
    /\ Parsed => hist[1].code = "InvalidUtf8"
    /\ lret # "none" => lret = "InvalidUtf8"
    /\ (Parsed /\ ByteAt(src, 1) \in 128..191) =>
         (hist[1].error.line = 1 /\ hist[1].error.column = 1)
    /\ (lret # "none" /\ ByteAt(src, 1) \in 128..191) =>
         (lerr.line = 1 /\ lerr.column = 1)

\* A text with a '}' that the grammar rejects on line 1 and a sequence cut
\* short on line 2 has been rejected with InvalidUtf8 by both parsers.
C16_Witness ==
  /\ src = DocTruncated
  /\ Len(hist) = 1
  /\ hist[1].code = "InvalidUtf8"
  /\ hist[1].error.line = 2
  /\ lret = "InvalidUtf8"

\* The three bytes EF BB BF stand at place i of s.
BOMAt(s, i) ==
  ByteAt(s, i) = 239 /\ ByteAt(s, i + 1) = 187 /\ ByteAt(s, i + 2) = 191

\* The bytes EF BB BF stand somewhere past the start of s.
BOMLater(s) == \E i \in 2..Len(s) : BOMAt(s, i)

\* The text without its first three bytes.
AfterBOM(s) == SubSeq(s, 4, Len(s))

\* C17: a byte order mark at offset 0 is skipped: the text is parsed as the
\* text after the mark is, from line 1, column 1, and the mark is in no
\* value; the same three bytes at a later offset are rejected with
\* InvalidUtf8.
C17_LeadingBOMSkipped ==
  /\ (Len(hist) = 1 /\ BOMAt(src, 1) /\ ~BOMLater(src)) =>
       LET r == Parse(AfterBOM(src), outPrev, NoError)
       IN /\ hist[1].code = r.code
          /\ hist[1].out = r.out
          /\ hist[1].error.line = r.error.line
          /\ hist[1].error.column = r.error.column
  /\ (lret # "none" /\ BOMAt(src, 1) /\ ~BOMLater(src)) =>
       LET r == ParseLossless(AfterBOM(src), NewLosslessValue, NoError)
       IN /\ lret = r.code
          /\ lout = r.out
          /\ lerr.line = r.error.line
          /\ lerr.column = r.error.column
  /\ (Parsed /\ src = DocBOM) =>
       /\ hist[1].code = OK
       /\ hist[1].out = Object((<<"a">> :> Number([m |-> 1, e |-> 0])))
  /\ (Parsed /\ src = DocBOMWord) =>
       /\ hist[1].code = OK
       /\ hist[1].out = String(<<"x">>)
  /\ (Parsed /\ src = DocBOMThenJunk) =>
       /\ hist[1].code = "UnexpectedChar"
       /\ hist[1].error.line = 1
       /\ hist[1].error.column = 3
  /\ (Parsed /\ BOMLater(src)) => hist[1].code = "InvalidUtf8"
  /\ (lret # "none" /\ BOMLater(src)) => lret = "InvalidUtf8"

\* The text with a byte order mark before `a: 1` has been parsed by both
\* parsers.
C17_Witness ==
  /\ src = DocBOM
  /\ Len(hist) = 1
  /\ hist[1].code = OK
  /\ hist[1].out = Object((<<"a">> :> Number([m |-> 1, e |-> 0])))
  /\ lret = OK


\* The sixteen hex digits in order, and the number four of them write.
HexDigits == <<{"0"}, {"1"}, {"2"}, {"3"}, {"4"}, {"5"}, {"6"}, {"7"}, {"8"}, {"9"},
               {"a","A"}, {"b","B"}, {"c","C"}, {"d","D"}, {"e","E"}, {"f","F"}>>

HexDigit(c) == (CHOOSE i \in 1..16 : c \in HexDigits[i]) - 1

HexNumber(h) ==
  HexDigit(h[1]) * 4096 + HexDigit(h[2]) * 256 + HexDigit(h[3]) * 16 + HexDigit(h[4])

\* The code point of a surrogate pair.
PairCodePoint(hi, lo) == 65536 + (hi - 55296) * 1024 + (lo - 56320)

\* The four UTF-8 bytes of a code point above U+FFFF.
FourBytes(cp) ==
  <<CharOf(240 + (cp \div 262144)), CharOf(128 + ((cp \div 4096) % 64)),
    CharOf(128 + ((cp \div 64) % 64)), CharOf(128 + (cp % 64))>>

\* The first Parse has returned code c, and ParseLossless code c if called.
BothReturn(c) ==
  /\ Parsed => hist[1].code = c
  /\ lret # "none" => lret = c

\* The first Parse has returned the string b, and ParseLossless if called.
BothString(b) ==
  /\ BothReturn(OK)
  /\ Parsed => hist[1].out = String(b)
  /\ lret # "none" => lout.value = String(b)

\* C18: an escaped high surrogate followed by an escaped low surrogate is
\* one code point, 0x10000 + ((high - 0xD800) << 10 | (low - 0xDC00)), in
\* four UTF-8 bytes; a high half with no low half after it and a low half
\* alone are InvalidEscape.
C18_SurrogatePairDecoded ==
  /\ \A q \in Quotes, hi \in HighHalves, lo \in LowHalves :
       src = PairText(q, hi, lo) =>
         BothString(FourBytes(PairCodePoint(HexNumber(hi), HexNumber(lo))))
  /\ \A q \in Quotes :
       /\ src = PairText(q, <<"d","8","3","D">>, <<"D","e","0","0">>) =>
            BothString(<<"xF0","x9F","x98","x80">>)
       /\ src = PairText(q, <<"D","8","0","0">>, <<"D","C","0","0">>) =>
            BothString(<<"xF0","x90","x80","x80">>)
       /\ src = PairText(q, <<"D","B","F","F">>, <<"D","F","F","F">>) =>
            BothString(<<"xF4","x8F","xBF","xBF">>)
  /\ \A q \in Quotes, rest \in NoLowHalf :
       src = LoneHighText(q, <<"d","8","3","D">>, rest) => BothReturn("InvalidEscape")
  /\ \A q \in Quotes, lo \in LowHalves :
       src = LoneLowText(q, lo) => BothReturn("InvalidEscape")

\* The string "\ud83D\uDe00" (U+1F600) has been parsed by both parsers.
C18_Witness ==
  /\ src = PairText("\"", <<"d","8","3","D">>, <<"D","e","0","0">>)
  /\ Len(hist) = 1
  /\ hist[1].out = String(<<"xF0","x9F","x98","x80">>)
  /\ lret = OK

\* The JSON text t holds no control character raw.
NothingRaw(t) == \A i \in 1..Len(t) : ByteVal(t[i]) >= 32

\* C19: in the text of ToJsonString every control character below 0x20 of
\* a string or key is escaped, as quote and backslash are: the text holds no
\* such character raw.
C19_JsonControlEscaped ==
  json.done => NothingRaw(json.s)

\* C20: when inline spaces or tabs stand between a bare identifier and the
\* ':' after it, the object body is read from the first character of the
\* identifier: its first key is the whole identifier.
C20_KeyBeforeSpacedColon ==
  \A g \in KeyGaps :
    src = KeyGapText(g) =>
      /\ Parsed =>
           /\ hist[1].code = OK
           /\ hist[1].out = Object((<<"k","e","y">> :> Number([m |-> 1, e |-> 0])))
      /\ lret # "none" =>
           /\ lret = OK
           /\ lout.value = Object((<<"k","e","y">> :> Number([m |-> 1, e |-> 0])))

\* The stack is not empty, its bottom is 0 and it increases strictly from
\* bottom to top.
WellFormedStack(stack) ==
  /\ Len(stack) >= 1
  /\ stack[1] = 0
  /\ \A i \in 1..(Len(stack) - 1) : stack[i] < stack[i + 1]

\* C21: in every state of the line reader, the states after an indent error
\* included, the indent stack is non-empty, its bottom element is 0 and its
\* elements increase strictly from bottom to top.
C21_IndentStackWellFormed ==
  WellFormedStack(inst.p.mIndentStack)

\* A dedent to a level that is not on the stack has failed, and has left a
\* stack of more than one level.
C21_Witness ==
  /\ inst.step = "error"
  /\ inst.code = "InconsistentIndent"
  /\ Len(inst.prev.mIndentStack) = 3
  /\ Len(inst.p.mIndentStack) = 2

\* The levels of a stack that are at most c, in their order.
LevelsUpTo(stack, c) == SelectSeq(stack, LAMBDA x : x <= c)

\* The levels of a stack.
Levels(stack) == {stack[i] : i \in 1..Len(stack)}

\* The last iteration read a line with content whose indentCols passed the
\* check against the indent unit.
ContentLineRead ==
  /\ inst.step \in {"content", "error"}
  /\ inst.prev.mCol = 1
  /\ (inst.indentCols = 0 \/ inst.prev.mIndentUnit = 0
      \/ inst.indentCols % inst.prev.mIndentUnit = 0)

\* C22: for a content line the line reader reads, of c leading spaces
\* against the stack top t:
\* c > t pushes c, c = t leaves the stack as it is, c < t pops every
\* level greater than c and succeeds only when the new top is c; otherwise
\* the line fails with InconsistentIndent.
C22_IndentTransition ==
  ContentLineRead =>
    LET before == inst.prev.mIndentStack
        after == inst.p.mIndentStack
        c == inst.indentCols
        t == before[Len(before)]
    IN /\ c > t => (inst.step = "content" /\ after = Append(before, c))
       /\ c = t => (inst.step = "content" /\ after = before)
       /\ (c < t /\ c \in Levels(before)) =>
            (inst.step = "content" /\ after = LevelsUpTo(before, c))
       /\ (c < t /\ c \notin Levels(before)) =>
            /\ inst.step = "error"
            /\ inst.code = "InconsistentIndent"
            /\ after = LevelsUpTo(before, c)

\* A line has dedented by two levels at once, from <<0, 1, 2>> to <<0>>.
C22_Witness ==
  /\ ContentLineRead
  /\ inst.step = "content"
  /\ inst.prev.mIndentStack = <<0, 1, 2>>
  /\ inst.p.mIndentStack = <<0>>

\* The characters of s from place i up to the line break or the end.
RECURSIVE UpToLineBreak(_, _)
UpToLineBreak(s, i) ==
  IF i > Len(s) \/ s[i] \in {"\n", "\r"} THEN <<>>
  ELSE <<s[i]>> \o UpToLineBreak(s, i + 1)

\* The last iteration started at the first column of a line that is blank or
\* holds a comment only.
BlankLineRead ==
  /\ inst.step \in {"blank", "content", "error"}
  /\ inst.prev.mCol = 1
  /\ ~IsContentLine(inst.prev.mSrc, inst.prev.mPos + 1)

\* C23: reading a blank line or a comment line, whatever its leading spaces,
\* leaves the indent stack and the indent unit as they were and gives no
\* error; the plain reader keeps nothing of the line, the lossless reader
\* appends it to the pending comments.
C23_BlankLineNoTransition ==
  BlankLineRead =>
    LET start == inst.prev.mPos + 1
        n == SpacesFrom(inst.prev.mSrc, start)
    IN /\ inst.step = "blank"
       /\ inst.code = OK
       /\ inst.p.mIndentStack = inst.prev.mIndentStack
       /\ inst.p.mIndentUnit = inst.prev.mIndentUnit
       /\ inst.p.mError = inst.prev.mError
       /\ inst.p.mPendingComments =
            IF inst.lossless
            THEN Append(inst.prev.mPendingComments,
                        [indent |-> n, text |-> UpToLineBreak(inst.prev.mSrc, start + n)])
            ELSE inst.prev.mPendingComments

\* The lossless reader has read a comment line of three leading spaces
\* while the indent unit was 2 and the stack <<0, 2>>.
C23_Witness ==
  /\ BlankLineRead
  /\ inst.lossless
  /\ inst.step = "blank"
  /\ inst.indentCols = 3
  /\ inst.p.mIndentUnit = 2
  /\ inst.p.mIndentStack = <<0, 2>>
  /\ Len(inst.p.mPendingComments) = 1
  /\ inst.p.mPendingComments[1].text = <<"#">>

\* The keys of the object v, and of no other value.
KeysOf(v) == IF v.t = "obj" THEN DOMAIN v.v ELSE {}

\* C24: the keys of an indented object all start at the column of its first
\* key: the line `b: 2`, deeper than the body of the object that `a: 1` is
\* in, adds no key b to that object.
C24_SiblingKeysOneColumn ==
  /\ src = DocDeeperSibling =>
       /\ (Parsed /\ hist[1].code = OK) => <<"b">> \notin KeysOf(hist[1].out)
       /\ lret = OK => <<"b">> \notin KeysOf(lout.value)
  /\ src = DocDeeperSiblingNested =>
       /\ (Parsed /\ hist[1].code = OK) =>
            <<"b">> \notin KeysOf(hist[1].out.v[<<"x">>])
       /\ lret = OK => <<"b">> \notin KeysOf(lout.value.v[<<"x">>])

\* The value of key a in the text KeyLineText(n, c, f), in the value v of
\* the whole text.
ValueOfA(v, n) == IF n = 0 THEN v.v[<<"a">>] ELSE v.v[<<"x">>].v[<<"a">>]

\* C25: when the line of a key ends after its ':' (a comment apart), the
\* value is the block on the next content line, which is deeper than the
\* body indent; when that line is not deeper, or there is none, the parse
\* fails with InconsistentIndent.
C25_BlockValueDeeper ==
  \A n \in {0, 2}, c \in AfterColon, f \in AfterKeyLine :
    src = KeyLineText(n, c, f) =>
      IF Len(f) > 1 /\ SpacesFrom(f, 2) > n
      THEN /\ BothReturn(OK)
           /\ Parsed =>
                ValueOfA(hist[1].out, n) = Object((<<"b">> :> Number([m |-> 1, e |-> 0])))
           /\ lret # "none" =>
                ValueOfA(lout.value, n) = Object((<<"b">> :> Number([m |-> 1, e |-> 0])))
      ELSE BothReturn("InconsistentIndent")

\* The number n with exponent 0.
Whole(n) == Number([m |-> n, e |-> 0])

\* The root of DedentText(i): d in the object whose body indent is i.
DedentRoot(i) ==
  IF i = 0
  THEN Object((<<"a">> :> Object((<<"b">> :> Object((<<"c">> :> Whole(1)))))) @@ (<<"d">> :> Whole(2)))
  ELSE IF i = 2
  THEN Object((<<"a">> :>
         Object((<<"b">> :> Object((<<"c">> :> Whole(1)))) @@ (<<"d">> :> Whole(2)))))
  ELSE Object((<<"a">> :>
         Object((<<"b">> :> Object((<<"c">> :> Whole(1)) @@ (<<"d">> :> Whole(2)))))))

\* C26: nested blocks build one object per level, and a line that dedents
\* by k levels closes the k innermost objects: after the blocks of a (body
\* indent 2) and b (body indent 4), the key d of a line at indent 0, 2 or 4
\* is added to the object whose body indent is the indent of its line.
C26_DedentClosesLevels ==
  \A i \in DedentIndents :
    src = DedentText(i) =>
      /\ BothReturn(OK)
      /\ Parsed => hist[1].out = DedentRoot(i)
      /\ lret # "none" => lout.value = DedentRoot(i)

\* Both parsers have read the text whose last line closes two objects.
C26_Witness ==
  /\ src = DedentText(0)
  /\ Parsed /\ hist[1].code = OK
  /\ hist[1].out.v[<<"d">>] = Whole(2)
  /\ lret = OK /\ lout.value = DedentRoot(0)

\* The character that the escape of e stands for, in either quoted form.
Decoded(e) ==
  IF e = "n" THEN "\n" ELSE IF e = "r" THEN "\r" ELSE IF e = "t" THEN "\t" ELSE e

\* C27: the two quoted forms accept one escape set: a backslash before '"',
\* '\', n, r, t or uXXXX is decoded in both, a backslash before any other
\* character is InvalidEscape in both, and a raw line break or the end of
\* the input before the closing quote is UnterminatedString.
C27_SameEscapeSet ==
  \A q \in Quotes :
    /\ \A e \in EscapeChars :
         src = QuotedText(q, <<"\\", e>>) =>
           IF e \in {"\"", "\\", "n", "r", "t"}
           THEN BothString(<<Decoded(e)>>)
           ELSE BothReturn("InvalidEscape")
    /\ src = QuotedText(q, <<"\\", "u", "0", "0", "4", "1">>) => BothString(AppendUTF8(65))
    /\ src \in {QuotedText(q, <<"a", "\n", "b">>), QuotedText(q, <<"a", "\r", "b">>),
                OpenQuotedText(q, <<"a">>), OpenQuotedText(q, <<"a", "\\">>)} =>
         BothReturn("UnterminatedString")

\* The comment line `# c` as the lossless parser records it at indent n.
TheComment(n) == [text |-> <<"#", " ", "c">>, indent |-> n]

\* C28: ParseLossless attaches a comment line met between two content lines
\* as the leadingComments of the very next node parsed: the next key of an
\* indented object, the first key of a block, the next element of a
\* multiline array, the next entry of an inline object; a line pending when
\* the root is complete is in the trailingComments of the root.
C28_CommentsToNextNode ==
  lret = OK =>
    /\ src = DocCommentBeforeKey =>
         /\ lout.objectItems[2].item.leadingComments = <<TheComment(0)>>
         /\ lout.trailingComments = <<>>
    /\ src = DocCommentBeforeBlock =>
         lout.objectItems[1].item.objectItems[1].item.leadingComments = <<TheComment(2)>>
    /\ src = DocCommentAtEnd => lout.trailingComments = <<TheComment(0)>>
    /\ src = DocCommentBeforeElement =>
         /\ lout.arrayItems[2].leadingComments = <<TheComment(2)>>
         /\ lout.trailingComments = <<>>
    /\ src = DocCommentInInlineObject =>
         lout.objectItems[2].item.leadingComments = <<TheComment(0)>>

\* The number of non-empty arrays in the value v, at any depth, for which
\* CanInlineArray is b.
RECURSIVE CountArrays(_, _)
RECURSIVE CountArraysIn(_, _, _)
CountArrays(v, b) ==
  IF v.t = "arr"
  THEN (IF Len(v.v) > 0 /\ CanInlineArray(v.v) = b THEN 1 ELSE 0)
       + CountArraysIn(v.v, Len(v.v), b)
  ELSE IF v.t = "obj"
  THEN With(SortedKeys(DOMAIN v.v), LAMBDA keys :
         CountArraysIn([i \in 1..Len(keys) |-> v.v[keys[i]]], Len(keys), b))
  ELSE 0

CountArraysIn(values, n, b) ==
  IF n = 0 THEN 0 ELSE CountArraysIn(values, n - 1, b) + CountArrays(values[n], b)

\* The number of '[' of the text s that a line break follows, and the number
\* that an element follows on the same line.
OpenedMultiline(s) == Cardinality({i \in 1..(Len(s) - 1) : s[i] = "[" /\ s[i + 1] = "\n"})

OpenedInline(s) ==
  Cardinality({i \in 1..(Len(s) - 1) : s[i] = "[" /\ s[i + 1] \notin {"\n", "]"}})

\* C29: ToString writes a non-empty array on one line, [a, b, c], exactly
\* when it has at most 3 elements that are all simple scalars; every other
\* non-empty array, wherever it is nested, is written multiline, one element
\* per line one level deeper.
C29_InlineArrayRule ==
  text.done =>
    /\ OpenedInline(text.s) = CountArrays(out, TRUE)
    /\ OpenedMultiline(text.s) = CountArrays(out, FALSE)
    /\ out = Array(<<Whole(1), Whole(2), Whole(3)>>) =>
         text.s = <<"[">> \o DoubleToString([m |-> 1, e |-> 0]) \o <<",", " ">>
                    \o DoubleToString([m |-> 2, e |-> 0]) \o <<",", " ">>
                    \o DoubleToString([m |-> 3, e |-> 0]) \o <<"]">>
    /\ out = Array(<<Array(<<Whole(1)>>)>>) =>
         text.s = <<"[", "\n">> \o Spaces(DefaultIndentWidth) \o <<"[">>
                    \o DoubleToString([m |-> 1, e |-> 0]) \o <<"]", "\n", "]">>

\* C30: ToStringLossless does not modify the tree at any point of a call,
\* and each of two interleaved calls on one tree returns the text that a
\* call alone returns.
C30_TreeNeverModified ==
  /\ lout = loutPrev
  /\ \A i \in Threads :
       inst[i].pc = "done" => inst[i].out = ToStringLossless(loutPrev, DefaultOptions)

=============================================================================
